---- MODULE Spec2Model ----
(***************************************************************************)
(* Model of the plant-identification orchestrator of backend/main.py:      *)
(* the /identify handler, _process_and_cache, the retry loop of            *)
(* _call_plant_id, the two cache backends (SimpleCache, RedisCache) and    *)
(* the response normalizer; of the CacheService of                         *)
(* backend/services/cache_service.py; of the treatment-guide routes of     *)
(* backend/routes/guides.py over GuideService; and of sync_collections of  *)
(* backend/routes/collections.py over CollectionService.                   *)
(*                                                                         *)
(* Conventions.  JSON / Python values are tagged records [t, v]; a Python  *)
(* dict is a TLA+ function from key strings to values.  Floats are kept    *)
(* as integers in hundredths (0.95 is 95).  Wall-clock time is counted in  *)
(* days (the TTL of 24*3600 seconds is one unit); backoff sleeps are       *)
(* counted in half seconds (0.5 s is 1).  sha256 is modelled as an         *)
(* injective function of the bytes it hashes.                              *)
(***************************************************************************)
EXTENDS Integers, Sequences, FiniteSets, TLC

(***************************************************************************)
(* Bounds of the model.                                                    *)
(***************************************************************************)
\* number of /identify requests of one run
MaxReq == 2
\* last value of the clock
MaxTime == 2
\* number of calls of the guide routes of one run
MaxGuideCalls == 3
\* number of calls of the sync route of one run, and of items in one call
MaxSyncCalls == 2
MaxItems == 2

(***************************************************************************)
(* Python / JSON values.                                                   *)
(***************************************************************************)
None == [t |-> "null"]
JBool(b) == [t |-> "bool", v |-> b]
JNum(n) == [t |-> "num", v |-> n]
JStr(s) == [t |-> "str", v |-> s]
JList(s) == [t |-> "list", v |-> s]
JDict(f) == [t |-> "dict", v |-> f]
EmptyDict == JDict([k \in {} |-> None])

IsDict(x) == x.t = "dict"
IsList(x) == x.t = "list"
IsStr(x) == x.t = "str"
\* isinstance(v, (int, float)): bool is a subclass of int
IsNumber(x) == x.t \in {"num", "bool"}

\* int(v) in the place of float(v)
FloatAsInt(x) ==
    IF x.t = "bool" THEN JNum(IF x.v THEN 100 ELSE 0) ELSE JNum((x.v \div 100) * 100)

\* float(v) for a value accepted by IsNumber
Float(x) == IF x.t = "bool" THEN JNum(IF x.v THEN 100 ELSE 0) ELSE x

\* d.get(k): the value, or None when the key is absent
Get(d, k) == IF k \in DOMAIN d.v THEN d.v[k] ELSE None

\* d.get(k, default)
GetOr(d, k, dflt) == IF k \in DOMAIN d.v THEN d.v[k] ELSE dflt

\* Python truthiness
Truthy(x) ==
    CASE x.t = "null" -> FALSE
      [] x.t = "bool" -> x.v
      [] x.t = "num" -> x.v # 0
      [] x.t = "str" -> x.v # ""
      [] x.t = "list" -> Len(x.v) > 0
      [] x.t = "dict" -> DOMAIN x.v # {}

\* a or b
Or(a, b) == IF Truthy(a) THEN a ELSE b

\* str(x): a string is itself, anything else is rendered
PyStr(x) == IF x.t = "str" THEN x ELSE JStr(ToString(x.v))

\* dict.update / {**a, **b}: the keys of b win
Update(a, b) ==
    JDict([k \in (DOMAIN a.v) \cup (DOMAIN b.v) |->
            IF k \in DOMAIN b.v THEN b.v[k] ELSE a.v[k]])

\* the marker of a raised exception inside the normalizer
Exc == [t |-> "exc"]
IsExc(x) == x.t = "exc"

RECURSIVE JoinStr(_)
\* ", ".join(str(e) for e in v)
JoinStr(s) ==
    IF Len(s) = 0 THEN ""
    ELSE IF Len(s) = 1 THEN PyStr(s[1]).v
    ELSE PyStr(s[1]).v \o ", " \o JoinStr(Tail(s))

(***************************************************************************)
(* The response normalizer.                                                *)
(***************************************************************************)
\* str(citation) if citation else None
CitationOf(c) == IF Truthy(c) THEN PyStr(c) ELSE None

_extract_detail_text_and_citation(v) ==
    CASE v.t = "null" -> [text |-> None, citation |-> None]
      [] v.t = "str" -> [text |-> v, citation |-> None]
      [] v.t = "list" -> [text |-> JStr(JoinStr(v.v)), citation |-> None]
      [] v.t = "dict" ->
            LET text == Or(Get(v, "value"), Or(Get(v, "text"), Get(v, "description")))
                citation == Get(v, "citation")
            IN  IF Truthy(text)
                THEN [text |-> PyStr(text), citation |-> CitationOf(citation)]
                ELSE [text |-> None, citation |-> CitationOf(citation)]
      [] OTHER -> [text |-> PyStr(v), citation |-> None]

\* _extract_suggestions with the two sources in the other order
ExtractSuggestionsTopLevelFirst(resp) ==
    IF ~IsDict(resp) THEN JList(<<>>)
    ELSE
      LET result_obj == Or(Get(resp, "result"), EmptyDict)
          classification ==
              IF IsDict(result_obj) THEN Get(result_obj, "classification") ELSE None
          s == IF IsDict(classification) THEN Get(classification, "suggestions") ELSE None
          suggestions == IF IsList(s) THEN s ELSE JList(<<>>)
          s2 == Get(resp, "suggestions")
      IN  IF IsList(s2) /\ Truthy(s2) THEN s2 ELSE suggestions

_extract_suggestions(resp) ==
    IF ~IsDict(resp) THEN JList(<<>>)
    ELSE
      LET result_obj == Or(Get(resp, "result"), EmptyDict)
          classification ==
              IF IsDict(result_obj) THEN Get(result_obj, "classification") ELSE None
          s == IF IsDict(classification) THEN Get(classification, "suggestions") ELSE None
          suggestions == IF IsList(s) THEN s ELSE JList(<<>>)
          s2 == Get(resp, "suggestions")
      IN  IF ~Truthy(suggestions) /\ IsList(s2) THEN s2 ELSE suggestions

\* common = str(cn[0]) for a non-empty list, str(cn) otherwise
FirstOrStr(cn) == IF IsList(cn) /\ Len(cn.v) > 0 THEN PyStr(cn.v[1]) ELSE PyStr(cn)

_extract_common_name(top) ==
    LET common ==
            IF Truthy(Get(top, "plant_name")) THEN Get(top, "plant_name")
            ELSE IF Truthy(Get(top, "common_names"))
                 THEN FirstOrStr(Get(top, "common_names"))
                 ELSE None
        details == Or(Get(top, "details"), EmptyDict)
    IN  IF Truthy(common) THEN common
        ELSE IF IsDict(details) /\ Truthy(Get(details, "common_names"))
             THEN FirstOrStr(Get(details, "common_names"))
             ELSE common

\* the first of probability, prob, confidence that is a number, as a float
FirstNumeric(d) ==
    CASE IsNumber(Get(d, "probability")) -> Float(Get(d, "probability"))
      [] ~IsNumber(Get(d, "probability")) /\ IsNumber(Get(d, "prob")) -> Float(Get(d, "prob"))
      [] ~IsNumber(Get(d, "probability")) /\ ~IsNumber(Get(d, "prob"))
            /\ IsNumber(Get(d, "confidence")) -> Float(Get(d, "confidence"))
      [] OTHER -> None

_extract_confidence(top, resp) ==
    LET conf == FirstNumeric(top)
        result_obj == Get(resp, "result")
        maybe == IF IsDict(result_obj) THEN Get(result_obj, "classification") ELSE None
        first == IF IsDict(maybe) THEN Get(maybe, "suggestions") ELSE None
    IN  IF conf = None /\ IsList(first) /\ Len(first.v) > 0 /\ IsDict(first.v[1])
        THEN FirstNumeric(first.v[1])
        ELSE conf

RECURSIVE Strip(_)
\* str.strip(), the white space of the model being the blank
Strip(s) ==
    IF Len(s) = 0 THEN s
    ELSE IF SubSeq(s, 1, 1) = " " THEN Strip(SubSeq(s, 2, Len(s)))
    ELSE IF SubSeq(s, Len(s), Len(s)) = " " THEN Strip(SubSeq(s, 1, Len(s) - 1))
    ELSE s

\* the f-string rendering of a watering bound
Fmt(x) == PyStr(x).v

\* the watering phrase of a {min, max} range object, None when it has no bound; the
\* separator of the two bounds, three non-ASCII characters in the source, is written -
WateringRange(watering_raw) ==
    LET min_val == Get(watering_raw, "min")
        max_val == Get(watering_raw, "max")
    IN  IF min_val # None /\ max_val # None
        THEN JStr("Kelembaban ideal: " \o Fmt(min_val) \o " - " \o Fmt(max_val))
        ELSE IF min_val # None THEN JStr("Kelembaban minimal: " \o Fmt(min_val))
        ELSE IF max_val # None THEN JStr("Kelembaban hingga: " \o Fmt(max_val))
        ELSE None

\* details.get raises AttributeError when details is no dict
_extract_care_info(details) ==
    IF ~IsDict(details) THEN Exc
    ELSE
      LET watering_raw == Get(details, "watering")
          best_watering == _extract_detail_text_and_citation(Get(details, "best_watering"))
          range_text == IF IsDict(watering_raw) THEN WateringRange(watering_raw) ELSE None
          range_citation ==
              IF range_text # None /\ Truthy(Get(watering_raw, "citation"))
              THEN PyStr(Get(watering_raw, "citation"))
              ELSE best_watering.citation
          use_best == ~Truthy(range_text) /\ Truthy(best_watering.text)
          watering_text ==
              IF use_best THEN JStr(Strip(best_watering.text.v)) ELSE range_text
          watering_citation == IF use_best THEN best_watering.citation ELSE range_citation
          light_raw == Or(Get(details, "best_light_condition"), Get(details, "best_light"))
          light_info == _extract_detail_text_and_citation(light_raw)
          watering ==
              IF Truthy(watering_text)
              THEN [k \in {"watering"} |->
                      JDict([text |-> watering_text, citation |-> watering_citation])]
              ELSE [k \in {} |-> None]
          light ==
              IF Truthy(light_info.text)
              THEN [k \in {"light"} |->
                      JDict([text |-> JStr(Strip(light_info.text.v)),
                             citation |-> light_info.citation])]
              ELSE [k \in {} |-> None]
      IN  Update(JDict(watering), JDict(light))

\* [.. for img in d.get("similar_images", []) if isinstance(img, dict)]: iterating
\* None or a number raises TypeError; a string or a dict yields no dict element
SimilarImages(d) ==
    LET x == GetOr(d, "similar_images", JList(<<>>))
        imgs == IF IsList(x) THEN SelectSeq(x.v, IsDict) ELSE <<>>
    IN  IF x.t \in {"null", "num", "bool"} THEN Exc
        ELSE JList([i \in 1..Len(imgs) |->
                      JDict([url |-> Get(imgs[i], "url"),
                             url_small |-> Get(imgs[i], "url_small")])])

\* the diseases comprehension without its isinstance(d, dict) filter: d.get raises on
\* an element that is no dict
DiseasesUnfiltered(suggestions) ==
    LET ds == suggestions.v
    IN  IF \E i \in 1..Len(ds) : ~IsDict(ds[i]) \/ IsExc(SimilarImages(ds[i])) THEN Exc
        ELSE JList([i \in 1..Len(ds) |->
                      JDict([name |-> Get(ds[i], "name"),
                             probability |-> Get(ds[i], "probability"),
                             similar_images |-> SimilarImages(ds[i])])])

\* the diseases comprehension over the dict elements of the suggestions
Diseases(suggestions) ==
    LET ds == SelectSeq(suggestions.v, IsDict)
    IN  IF \E i \in 1..Len(ds) : IsExc(SimilarImages(ds[i])) THEN Exc
        ELSE JList([i \in 1..Len(ds) |->
                      JDict([name |-> Get(ds[i], "name"),
                             probability |-> Get(ds[i], "probability"),
                             similar_images |-> SimilarImages(ds[i])])])

\* _extract_health_assessment without the test of the is_healthy key
HealthAssessmentDefaulted(resp) ==
    LET result_obj == Get(resp, "result") IN
    IF ~IsDict(result_obj) THEN None
    ELSE
      LET is_healthy_obj == Get(result_obj, "is_healthy")
          prob == IF IsDict(is_healthy_obj) THEN Get(is_healthy_obj, "probability") ELSE None
          probability == IF IsNumber(prob) THEN Float(prob) ELSE JNum(100)
          is_healthy == IF IsNumber(prob) THEN JBool(Float(prob).v >= 50) ELSE JBool(TRUE)
          disease_obj == Get(result_obj, "disease")
          suggestions == IF IsDict(disease_obj) THEN Get(disease_obj, "suggestions") ELSE None
          diseases == IF IsList(suggestions) THEN Diseases(suggestions) ELSE JList(<<>>)
      IN  IF IsExc(diseases) THEN Exc
          ELSE JDict([is_healthy |-> is_healthy, probability |-> probability,
                      diseases |-> diseases])

_extract_health_assessment(resp) ==
    LET result_obj == Get(resp, "result") IN
    IF ~IsDict(result_obj) THEN None
    ELSE IF "is_healthy" \notin DOMAIN result_obj.v THEN None
    ELSE
      LET is_healthy_obj == Get(result_obj, "is_healthy")
          prob == IF IsDict(is_healthy_obj) THEN Get(is_healthy_obj, "probability") ELSE None
          probability == IF IsNumber(prob) THEN Float(prob) ELSE JNum(100)
          is_healthy == IF IsNumber(prob) THEN JBool(Float(prob).v >= 50) ELSE JBool(TRUE)
          disease_obj == Get(result_obj, "disease")
          suggestions == IF IsDict(disease_obj) THEN Get(disease_obj, "suggestions") ELSE None
          diseases == IF IsList(suggestions) THEN Diseases(suggestions) ELSE JList(<<>>)
      IN  IF IsExc(diseases) THEN Exc
          ELSE JDict([is_healthy |-> is_healthy, probability |-> probability,
                      diseases |-> diseases])

\* TopFields written field by field into the result: an exception leaves the fields
\* written before it
TopFieldsPartial(top, resp) ==
    LET common == _extract_common_name(top)
        sci == Or(Get(top, "scientific_name"), Or(Get(top, "name"), Get(top, "species")))
        conf == _extract_confidence(top, resp)
        details == Or(Get(top, "details"), EmptyDict)
        care == _extract_care_info(details)
        desc_raw == Or(Get(details, "description_all"),
                       Or(Get(details, "description"), Get(details, "description_gpt")))
        health == _extract_health_assessment(resp)
        first == [id |-> PyStr(Or(Get(top, "id"), Or(Get(top, "species_id"), JStr("")))),
                  common_name |-> common,
                  scientific_name |-> IF sci # None THEN PyStr(sci) ELSE None,
                  confidence |-> conf]
        second == [care |-> care,
                   description |-> _extract_detail_text_and_citation(desc_raw).text]
    IN  IF IsExc(care) THEN JDict(first)
        ELSE IF IsExc(health) THEN JDict(first @@ second)
        ELSE JDict(first @@ second @@ [health_assessment |-> health])

\* the fields out.update adds for a top suggestion that is a non-empty dict, or Exc
TopFields(top, resp) ==
    LET common == _extract_common_name(top)
        sci == Or(Get(top, "scientific_name"), Or(Get(top, "name"), Get(top, "species")))
        conf == _extract_confidence(top, resp)
        details == Or(Get(top, "details"), EmptyDict)
        care == _extract_care_info(details)
        desc_raw == Or(Get(details, "description_all"),
                       Or(Get(details, "description"), Get(details, "description_gpt")))
        health == _extract_health_assessment(resp)
    IN  IF IsExc(care) \/ IsExc(health) THEN Exc
        ELSE JDict([id |-> PyStr(Or(Get(top, "id"), Or(Get(top, "species_id"), JStr("")))),
                    common_name |-> common,
                    scientific_name |-> IF sci # None THEN PyStr(sci) ELSE None,
                    confidence |-> conf,
                    care |-> care,
                    description |-> _extract_detail_text_and_citation(desc_raw).text,
                    health_assessment |-> health])

\* _normalize_plant_id_response without its try / except: an exception raised while
\* the fields are derived leaves the function
NormalizeUnguarded(resp) ==
    LET out == JDict([provider |-> JStr("plant.id"), raw_response |-> resp])
        suggestions == _extract_suggestions(resp)
        top == IF Truthy(suggestions) THEN suggestions.v[1] ELSE None
    IN  IF Truthy(top) /\ IsDict(top)
        THEN IF IsExc(TopFields(top, resp)) THEN Exc ELSE Update(out, TopFields(top, resp))
        ELSE out

_normalize_plant_id_response(resp) ==
    LET out == JDict([provider |-> JStr("plant.id"), raw_response |-> resp])
        suggestions == _extract_suggestions(resp)
        top == IF Truthy(suggestions) THEN suggestions.v[1] ELSE None
        fields == IF Truthy(top) /\ IsDict(top) THEN TopFields(top, resp) ELSE Exc
    IN  IF IsExc(fields) THEN out ELSE Update(out, fields)

(***************************************************************************)
(* Configuration and the inputs of the model.                              *)
(***************************************************************************)
PLANT_ID_AUTH_MODE == "body"
PLANT_ID_API_KEY == JStr("KEY")

\* ttl of SimpleCache.set and default_ttl of RedisCache, in days
TTL == 1

Reqs == 1..MaxReq

Bytes(b) == [t |-> "bytes", v |-> b]

\* the latitude / longitude form fields: both absent, or a float literal and a
\* text that is no float
GeoFields == {<<None, None>>, <<JStr("1.5"), JStr("abc")>>}

\* float(str(x)) of a form field; ValueError is Exc
ParseFloat(x) ==
    CASE PyStr(x).v = "1.5" -> JNum(150)
      [] PyStr(x).v = "2.5" -> JNum(250)
      [] OTHER -> Exc

\* a multipart request: an uploaded file and the latitude / longitude form fields
FileInputs ==
    {[image |-> Bytes("IMG"), check_health |-> h, latitude |-> g[1], longitude |-> g[2],
      body |-> Exc] : h \in BOOLEAN, g \in GeoFields}
    \cup {[image |-> Bytes(""), check_health |-> FALSE, latitude |-> None,
           longitude |-> None, body |-> Exc]}

\* the JSON bodies of a request without a file; Exc is a body request.json() rejects
JsonBodies == {Exc, EmptyDict, JDict([image_url |-> JStr("http://u")])}

JsonInputs ==
    {[image |-> None, check_health |-> h, latitude |-> None, longitude |-> None,
      body |-> b] : h \in BOOLEAN, b \in {JDict([image_url |-> JStr("http://u")])}}
    \cup {[image |-> None, check_health |-> FALSE, latitude |-> None,
           longitude |-> None, body |-> b] : b \in JsonBodies}

Inputs == FileInputs \cup JsonInputs

(***************************************************************************)
(* Cache key and provider payload (identify).                              *)
(***************************************************************************)
\* hashlib.sha256(b).hexdigest(): injective in the bytes
Sha256Hex(b) == "sha256(" \o b \o ")"

\* str.encode("utf-8"): the bytes of an ASCII string
Encode(str) == Bytes(str.v)

\* the f-string rendering of a bool
FmtBool(b) == IF b THEN "True" ELSE "False"

_make_cache_key_for_bytes(b) == Sha256Hex(b.v)

\* the cache key without the check_health suffix
CacheKeyWithoutFlag(inp) ==
    IF inp.image # None
    THEN _make_cache_key_for_bytes(inp.image) \o "_v2"
    ELSE Sha256Hex(Encode(Get(inp.body, "image_url")).v) \o "_v2"

\* cache_key of a request that passed validation
CacheKey(inp) ==
    IF inp.image # None
    THEN _make_cache_key_for_bytes(inp.image) \o "_h" \o FmtBool(inp.check_health) \o "_v2"
    ELSE Sha256Hex(Encode(Get(inp.body, "image_url")).v)
            \o "_h" \o FmtBool(inp.check_health) \o "_v2"

\* base64.b64encode(content).decode("ascii")
B64(b) == JStr("b64(" \o b.v \o ")")

\* the health / similar_images entries of the payload
HealthPart(inp) ==
    IF inp.check_health
    THEN JDict([health |-> JStr("all"), similar_images |-> JBool(TRUE)])
    ELSE EmptyDict

\* payload[name] = float(str(x)) unless x is None or no float
GeoPart(name, x) ==
    IF x # None /\ ~IsExc(ParseFloat(x))
    THEN JDict([k \in {name} |-> ParseFloat(x)])
    ELSE EmptyDict

\* payload of a request that passed validation
Payload(inp) ==
    IF inp.image # None
    THEN Update(Update(Update(JDict([images |-> JList(<<B64(inp.image)>>)]),
                              HealthPart(inp)),
                       GeoPart("latitude", inp.latitude)),
                GeoPart("longitude", inp.longitude))
    ELSE Update(JDict([image_url |-> Get(inp.body, "image_url")]), HealthPart(inp))

\* final_payload of _call_plant_id
FinalPayload(payload) ==
    IF PLANT_ID_AUTH_MODE = "body" /\ Truthy(PLANT_ID_API_KEY)
    THEN Update(payload, JDict([api_key |-> PLANT_ID_API_KEY]))
    ELSE payload

(***************************************************************************)
(* The upstream provider.                                                  *)
(***************************************************************************)
\* HTTP status codes the provider answers with
Statuses == {200, 400, 500}

\* the answer of a POST that raised httpx.RequestError, in the history of a request
RequestError == 1

\* the provider's echo of the request it answered
InputEcho(fp) == JDict([k \in (DOMAIN fp.v) \ {"api_key"} |-> fp.v[k]])

\* a v3 answer: one classification suggestion, and a health part when asked for
V3Body(fp) ==
    LET top == JDict([id |-> JStr("12345"), name |-> JStr("Ficus lyrata"),
                      probability |-> JNum(95),
                      details |-> JDict([common_names |-> JList(<<JStr("Fiddle Leaf Fig")>>)])])
        classification == JDict([classification |-> JDict([suggestions |-> JList(<<top>>)])])
        health == IF "health" \in DOMAIN fp.v
                  THEN JDict([is_healthy |-> JDict([probability |-> JNum(80)]),
                              disease |-> JDict([suggestions |-> JList(<<>>)])])
                  ELSE EmptyDict
    IN  JDict([input |-> InputEcho(fp), result |-> Update(classification, health)])

\* the JSON bodies of a 2xx answer to the posted payload; Exc is a body r.json() rejects
Bodies(fp) == {EmptyDict, V3Body(fp), Exc}

(***************************************************************************)
(* State.                                                                  *)
(***************************************************************************)
VARIABLES
    backend,    \* the class of the module-level cache object
    store,      \* SimpleCache._store: key -> (expiry, value)
    redis,      \* the keyspace of the Redis server: key -> (exp, data)
    metrics,    \* app.state.metrics
    now,        \* time.time()
    req,        \* the identify requests: position, locals, response, history
    service,    \* the CacheService object: redis_client set or not, memory_cache
    last,       \* the last direct call of a function or method: op, arg, ret
    guides,     \* the table treatment_guides of the store: id -> row
    gcall,      \* the calls of the guide routes: position, locals, response, history
    collections, \* the table plant_collections of the store: the rows, in insertion order
    scall       \* the calls of the sync route: position, locals, response, history

vars ==
    <<backend, store, redis, metrics, now, req, service, last,
      guides, gcall, collections, scall>>

\* the state that only the guide and collection routes touch
routes == <<guides, gcall, collections, scall>>

\* the state that only direct calls and those routes touch
direct == <<service, last, routes>>

NoEntries == [k \in {} |-> None]

\* a request that has not arrived
Idle ==
    [pc |-> "idle", inp |-> None, attempt |-> 0, backoff |-> 0, normalized |-> None,
     status |-> 0, content |-> None, cause |-> "",
     sleeps |-> <<>>, posts |-> 0, answer |-> 0, calls |-> 0, hit |-> FALSE,
     after |-> {}, during |-> {}, exp |-> 0]

\* no direct call has been made
NoCall == [op |-> "", arg |-> None, ret |-> None]

GuideCalls == 1..MaxGuideCalls
SyncCalls == 1..MaxSyncCalls

\* a call of a guide route that has not arrived
GuideIdle ==
    [pc |-> "idle", op |-> "", guide_id |-> "", plant_id |-> "", authorization |-> FALSE,
     guide_update |-> None, guide |-> None, status |-> 0, body |-> None,
     cached |-> FALSE, after |-> {}, before |-> None, deleted |-> None]

\* a call of the sync route that has not arrived
SyncIdle ==
    [pc |-> "idle", token |-> "", items |-> <<>>, i |-> 0,
     synced_collections |-> <<>>, failed_count |-> 0, status |-> 0,
     after |-> {}, created |-> <<>>]

\* no call of the guide and collection routes has arrived, and the tables are empty
NoRoutes ==
    /\ guides = NoEntries
    /\ gcall = [c \in GuideCalls |-> GuideIdle]
    /\ collections = <<>>
    /\ scall = [c \in SyncCalls |-> SyncIdle]

Init ==
    /\ backend \in {"SimpleCache", "RedisCache"}
    /\ store = NoEntries
    /\ redis = NoEntries
    /\ metrics = [requests |-> 0, successes |-> 0, failures |-> 0]
    /\ now = 0
    /\ req = [r \in Reqs |-> Idle]
    /\ service = [redis_client |-> FALSE, memory_cache |-> NoEntries]
    /\ last = NoCall
    /\ NoRoutes

\* the map m with key k bound to e / without key k
Put(m, k, e) == [x \in (DOMAIN m) \cup {k} |-> IF x = k THEN e ELSE m[x]]
Drop(m, k) == [x \in (DOMAIN m) \ {k} |-> m[x]]

(***************************************************************************)
(* The cache backends.                                                     *)
(***************************************************************************)
\* SimpleCache.get with the expiry test inverted
SimpleGetInverted(key) ==
    IF key \notin DOMAIN store THEN None
    ELSE IF now <= store[key].expiry THEN None
    ELSE store[key].val

\* SimpleCache.get: the value returned (None when absent or expired)
SimpleGet(key) ==
    IF key \notin DOMAIN store THEN None
    ELSE IF now > store[key].expiry THEN None
    ELSE store[key].val

\* SimpleCache.get that leaves an expired entry in the store
SimpleGetStoreKeep(key) == store

\* SimpleCache.get that renews the expiry of the entry it returns
SimpleGetStoreRenew(key) ==
    IF key \in DOMAIN store /\ now > store[key].expiry THEN Drop(store, key)
    ELSE IF key \in DOMAIN store
         THEN Put(store, key, [expiry |-> now + TTL, val |-> store[key].val])
         ELSE store

\* SimpleCache.get: the store it leaves (an expired entry is popped)
SimpleGetStore(key) ==
    IF key \in DOMAIN store /\ now > store[key].expiry THEN Drop(store, key) ELSE store

\* SimpleCache.set
SimpleSet(key, value) == Put(store, key, [expiry |-> now + TTL, val |-> value])

\* json.dumps / json.loads: text that parses back to the value; Exc when unparseable
JsonDumps(value) == [json |-> value]
JsonLoads(text) == IF "json" \in DOMAIN text THEN text.json ELSE Exc

\* the Redis server's GET: the text of a key that is set and has not expired
ServerGet(key) ==
    IF key \in DOMAIN redis /\ now < redis[key].exp THEN redis[key].data ELSE None

\* RedisCache.get, the server having answered
RedisGet(key) ==
    LET v == ServerGet(key)
    IN  IF v = None THEN None
        ELSE IF IsExc(JsonLoads(v)) THEN None ELSE JsonLoads(v)

\* RedisCache.set, the server having answered: SET key text EX ttl
RedisSet(key, value) == Put(redis, key, [exp |-> now + TTL, data |-> JsonDumps(value)])

(***************************************************************************)
(* Metrics and the ways a request ends (identify).                         *)
(***************************************************************************)
CountRequest(m) == [m EXCEPT !.requests = @ + 1]
CountSuccess(m) == [m EXCEPT !.successes = @ + 1]
CountFailure(m) == [m EXCEPT !.failures = @ + 1]

\* exceptions: the class, the status code of an HTTPException, the raise statement
HTTPException(code, at) == [kind |-> "HTTPException", status_code |-> code, at |-> at]
OtherException(at) == [kind |-> "Exception", status_code |-> 0, at |-> at]

\* every exception answered by the generic clause
ExceptStatusGeneric(exc) == 500

\* the status the except clauses of identify answer an exception with
ExceptStatus(exc) == IF exc.kind = "HTTPException" THEN exc.status_code ELSE 500

\* the request record after return JSONResponse(content=normalized)
Returned(rec, normalized) ==
    [rec EXCEPT !.pc = "done", !.status = 200, !.content = normalized,
                !.cause = "return", !.normalized = None, !.attempt = 0, !.backoff = 0]

\* the request record after an exception has left the try block
Raised(rec, exc) ==
    [rec EXCEPT !.pc = "done", !.status = ExceptStatus(exc), !.cause = exc.at,
                !.normalized = None, !.attempt = 0, !.backoff = 0]

\* an exception reaches the except clauses of identify
Fail(r, rec, exc) ==
    /\ req' = [req EXCEPT ![r] = Raised(rec, exc)]
    /\ metrics' = CountFailure(metrics)

(***************************************************************************)
(* identify: arrival and validation.                                       *)
(***************************************************************************)
identify_enter(r) ==
    /\ req[r].pc = "idle"
    /\ \A q \in Reqs : q < r => req[q].pc # "idle"
    /\ \E inp \in Inputs :
          req' = [req EXCEPT ![r] =
                    [@ EXCEPT !.pc = "validate", !.inp = inp,
                              !.after = {q \in Reqs : req[q].pc = "done"
                                                      /\ req[q].status = 200},
                              !.during = {q \in Reqs : req[q].pc = "sleep"}]]
    /\ metrics' = CountRequest(metrics)
    /\ UNCHANGED <<backend, store, redis, now>>
    /\ UNCHANGED direct

\* the exception validation raises, None when the request passes
ValidationError(inp) ==
    IF inp.image # None
    THEN IF inp.image.v = "" THEN HTTPException(400, "empty file") ELSE None
    ELSE IF IsExc(inp.body) THEN OtherException("request.json")
    ELSE IF ~IsDict(inp.body) THEN OtherException("body.get")
    ELSE IF ~Truthy(Get(inp.body, "image_url")) THEN HTTPException(400, "no image_url")
    ELSE IF ~IsStr(Get(inp.body, "image_url")) THEN OtherException("image_url.encode")
    ELSE None

identify_validate(r) ==
    /\ req[r].pc = "validate"
    /\ IF ValidationError(req[r].inp) # None
       THEN Fail(r, req[r], ValidationError(req[r].inp))
       ELSE /\ req' = [req EXCEPT ![r].pc = "get"]
            /\ UNCHANGED metrics
    /\ UNCHANGED <<backend, store, redis, now>>
    /\ UNCHANGED direct

(***************************************************************************)
(* _process_and_cache: the cache lookup.                                   *)
(***************************************************************************)
\* the cache hit returning without counting a success
CacheHitUncounted(r, cached, exp) ==
    /\ req' = [req EXCEPT ![r] =
                 Returned([@ EXCEPT !.hit = TRUE, !.exp = exp], cached)]
    /\ UNCHANGED metrics

\* cached is not None: count a success and return the cached value
CacheHit(r, cached, exp) ==
    /\ req' = [req EXCEPT ![r] =
                 Returned([@ EXCEPT !.hit = TRUE, !.exp = exp], cached)]
    /\ metrics' = CountSuccess(metrics)

\* cached is None: _call_plant_id is entered
CacheMiss(r) ==
    /\ req' = [req EXCEPT ![r] =
                 [@ EXCEPT !.pc = "post", !.attempt = 0, !.backoff = 1,
                           !.calls = @ + 1]]
    /\ UNCHANGED metrics

process_get_simple(r) ==
    /\ req[r].pc = "get"
    /\ backend = "SimpleCache"
    /\ LET key == CacheKey(req[r].inp)
           cached == SimpleGet(key)
       IN  /\ store' = SimpleGetStore(key)
           /\ IF cached # None
              THEN CacheHit(r, cached, store[key].expiry)
              ELSE CacheMiss(r)
    /\ UNCHANGED <<backend, redis, now>>
    /\ UNCHANGED direct

process_get_redis(r) ==
    /\ req[r].pc = "get"
    /\ backend = "RedisCache"
    /\ LET key == CacheKey(req[r].inp)
           cached == RedisGet(key)
       IN  \/ IF cached # None
              THEN CacheHit(r, cached, redis[key].exp)
              ELSE CacheMiss(r)
           \/ \* self._r.get raises: the server cannot be reached
              Fail(r, req[r], OtherException("cache.get"))
    /\ UNCHANGED <<backend, store, redis, now>>
    /\ UNCHANGED direct

(***************************************************************************)
(* _call_plant_id: the retry loop.                                         *)
(***************************************************************************)
\* while attempt <= 4
MaxAttemptsInclusive == 4 + 1

\* while attempt < 4
MaxAttempts == 4

\* if status and 400 <= status < 600
IsServerErrorFrom400(status) == status # 0 /\ 400 <= status /\ status < 600

\* if status and 500 <= status < 600
IsServerError(status) == status # 0 /\ 500 <= status /\ status < 600

\* raise_for_status raises HTTPStatusError unless the status is a 2xx
IsSuccess(status) == 200 <= status /\ status < 300

\* the except branches that retry: attempt += 1, then await asyncio.sleep(backoff)
RetryLater(rec) ==
    [rec EXCEPT !.attempt = @ + 1, !.sleeps = Append(@, rec.backoff), !.pc = "sleep"]

\* the rest of _process_and_cache after _call_plant_id returned resp, on SimpleCache:
\* normalize, cache.set, count a success, return
StoreAndReturn(r, rec, resp) ==
    LET normalized == _normalize_plant_id_response(resp)
    IN  /\ store' = SimpleSet(CacheKey(rec.inp), normalized)
        /\ req' = [req EXCEPT ![r] = Returned([rec EXCEPT !.exp = now + TTL], normalized)]
        /\ metrics' = CountSuccess(metrics)

\* the same on RedisCache, up to the await of the server's SET
NormalizeAndSet(r, rec, resp) ==
    /\ req' = [req EXCEPT ![r] =
                 [rec EXCEPT !.pc = "set", !.normalized = _normalize_plant_id_response(resp)]]
    /\ UNCHANGED <<store, metrics>>

\* client.post raises httpx.RequestError
call_post_error(r) ==
    /\ req[r].pc = "post"
    /\ req' = [req EXCEPT ![r] = RetryLater([@ EXCEPT !.posts = @ + 1, !.answer = RequestError])]
    /\ UNCHANGED <<backend, store, redis, metrics, now>>
    /\ UNCHANGED direct

\* client.post returns a response with the given status
call_post_response(r) ==
    /\ req[r].pc = "post"
    /\ \E status \in Statuses :
         LET rec == [req[r] EXCEPT !.posts = @ + 1, !.answer = status]
         IN  IF IsSuccess(status)
             THEN \E resp \in Bodies(FinalPayload(Payload(rec.inp))) :
                    IF IsExc(resp)
                    THEN Fail(r, rec, OtherException("r.json")) /\ UNCHANGED store
                    ELSE IF backend = "SimpleCache"
                    THEN StoreAndReturn(r, rec, resp)
                    ELSE NormalizeAndSet(r, rec, resp)
             ELSE IF IsServerError(status)
             THEN /\ req' = [req EXCEPT ![r] = RetryLater(rec)]
                  /\ UNCHANGED <<store, metrics>>
             ELSE Fail(r, rec, HTTPException(502, "status")) /\ UNCHANGED store
    /\ UNCHANGED <<backend, redis, now>>
    /\ UNCHANGED direct

\* asyncio.sleep(backoff) returns: backoff *= 2, then the loop test, and after the
\* loop raise HTTPException(502)
call_wake(r) ==
    /\ req[r].pc = "sleep"
    /\ LET rec == [req[r] EXCEPT !.backoff = @ * 2]
       IN  IF rec.attempt < MaxAttempts
           THEN /\ req' = [req EXCEPT ![r] = [rec EXCEPT !.pc = "post"]]
                /\ UNCHANGED metrics
           ELSE Fail(r, rec, HTTPException(502, "exhausted"))
    /\ UNCHANGED <<backend, store, redis, now>>
    /\ UNCHANGED direct

(***************************************************************************)
(* _process_and_cache: cache.set on RedisCache.                            *)
(***************************************************************************)
process_set_redis(r) ==
    /\ req[r].pc = "set"
    /\ \/ /\ redis' = RedisSet(CacheKey(req[r].inp), req[r].normalized)
          /\ req' = [req EXCEPT ![r] =
                       Returned([@ EXCEPT !.exp = now + TTL], req[r].normalized)]
          /\ metrics' = CountSuccess(metrics)
       \/ \* self._r.set raises: the server cannot be reached
          /\ Fail(r, req[r], OtherException("cache.set"))
          /\ UNCHANGED redis
    /\ UNCHANGED <<backend, store, now>>
    /\ UNCHANGED direct

(***************************************************************************)
(* Time.                                                                   *)
(***************************************************************************)
Tick ==
    /\ now < MaxTime
    /\ now' = now + 1
    /\ UNCHANGED <<backend, store, redis, metrics, req>>
    /\ UNCHANGED direct

\* the steps with a sleep that does not yield to the event loop: while a request
\* waits in its backoff, no other request is received or served
NextSleepBlocks ==
    \/ /\ \A q \in Reqs : req[q].pc # "sleep"
       /\ \/ \E r \in Reqs : identify_enter(r)
          \/ \E r \in Reqs : identify_validate(r)
          \/ \E r \in Reqs : process_get_simple(r)
          \/ \E r \in Reqs : process_get_redis(r)
          \/ \E r \in Reqs : call_post_error(r)
          \/ \E r \in Reqs : call_post_response(r)
          \/ \E r \in Reqs : process_set_redis(r)
    \/ \E r \in Reqs : call_wake(r)
    \/ Tick

Next ==
    \/ \E r \in Reqs : identify_enter(r)
    \/ \E r \in Reqs : identify_validate(r)
    \/ \E r \in Reqs : process_get_simple(r)
    \/ \E r \in Reqs : process_get_redis(r)
    \/ \E r \in Reqs : call_post_error(r)
    \/ \E r \in Reqs : call_post_response(r)
    \/ \E r \in Reqs : call_wake(r)
    \/ \E r \in Reqs : process_set_redis(r)
    \/ Tick

Spec == Init /\ [][Next]_vars

(***************************************************************************)
(* Direct calls of the normalizer: the provider answers it is applied to.  *)
(***************************************************************************)
\* the first classification suggestion of an answer; <<>> is an answer without one
Tops ==
    << <<>>,
       <<JDict([id |-> JStr("12345"), name |-> JStr("Ficus lyrata"),
                probability |-> JNum(95),
                details |-> JDict([common_names |-> JList(<<JStr("Fiddle Leaf Fig")>>)])])>>,
       <<JDict([name |-> JStr("Ficus lyrata"), details |-> JStr("n/a")])>>,
       <<JStr("Ficus lyrata")>>,
       <<JDict([species_id |-> JNum(7), scientific_name |-> JStr("Ficus lyrata"),
                details |-> JDict([watering |-> JDict([min |-> JNum(1), max |-> JNum(2)]),
                                   description |-> JDict([value |-> JStr("A plant "),
                                                          citation |-> JStr("Wiki")])])])>> >>

\* the is_healthy entry of result; <<>> is a result without the key
Healths ==
    << <<>>,
       <<JBool(TRUE)>>,
       <<JDict([probability |-> JNum(80)])>>,
       <<JDict([probability |-> JNum(50)])>>,
       <<JDict([probability |-> JNum(49)])>>,
       <<JDict([probability |-> JStr("high")])>>,
       <<EmptyDict>>,
       <<JDict([probability |-> JBool(FALSE)])>> >>

\* the disease entry of result; <<>> is a result without the key
DiseaseParts ==
    << <<>>,
       <<JStr("none")>>,
       <<JDict([suggestions |-> JList(<<>>)])>>,
       <<JDict([suggestions |-> JList(<<
            JDict([name |-> JStr("Black Spot"), probability |-> JNum(70),
                   similar_images |-> JList(<<JDict([url |-> JStr("u1"),
                                                     url_small |-> JStr("s1")]),
                                              JStr("x")>>)]),
            JStr("junk"),
            JDict([name |-> JStr("Rust"), probability |-> JNum(20)])>>)])>>,
       <<JDict([suggestions |-> JList(<<
            JDict([name |-> JStr("Mildew"), similar_images |-> None])>>)])>>,
       <<JDict([suggestions |-> JStr("text")])>> >>

\* an entry of a dict when the part is present
Entry(name, part) ==
    IF Len(part) = 0 THEN EmptyDict ELSE JDict([k \in {name} |-> part[1]])

\* a v3 answer built of the three parts
Answer(top, health, disease) ==
    JDict([result |->
             Update(Update(JDict([classification |->
                                    JDict([suggestions |-> JList(top)])]),
                           Entry("is_healthy", health)),
                    Entry("disease", disease))])

\* a suggestion of the top-level list of an answer (an older shape of the answers)
TopLevelTop == JDict([id |-> JStr("777"), name |-> JStr("Monstera deliciosa")])

\* answers of other shapes: no object, no result, a result that is no object, the
\* suggestions at top level, the suggestions in both places, an empty classification
\* list beside a top-level list
OtherAnswers ==
    << None, JList(<<>>), JStr("text"), JNum(1), EmptyDict,
       JDict([result |-> JStr("text")]),
       JDict([suggestions |-> JList(Tops[2])]),
       JDict([result |-> JDict([classification |-> JDict([suggestions |-> JList(Tops[2])])]),
              suggestions |-> JList(<<TopLevelTop>>)]),
       JDict([result |-> JDict([classification |-> JDict([suggestions |-> JList(<<>>)])]),
              suggestions |-> JList(<<TopLevelTop>>)]) >>

\* a direct call that has been given its argument and has not run
Pending(arg) == [op |-> "pending", arg |-> arg, ret |-> None]

NormInit ==
    /\ backend = "SimpleCache"
    /\ store = NoEntries
    /\ redis = NoEntries
    /\ metrics = [requests |-> 0, successes |-> 0, failures |-> 0]
    /\ now = 0
    /\ req = [r \in Reqs |-> Idle]
    /\ service = [redis_client |-> FALSE, memory_cache |-> NoEntries]
    /\ NoRoutes
    /\ \/ \E t \in 1..Len(Tops), h \in 1..Len(Healths), d \in 1..Len(DiseaseParts) :
             last = Pending(Answer(Tops[t], Healths[h], DiseaseParts[d]))
       \/ \E i \in 1..Len(OtherAnswers) : last = Pending(OtherAnswers[i])

\* _normalize_plant_id_response(resp) is called and returns
normalize ==
    /\ last.op = "pending"
    /\ last' = [op |-> "_normalize_plant_id_response", arg |-> last.arg,
                ret |-> _normalize_plant_id_response(last.arg)]
    /\ UNCHANGED <<backend, store, redis, metrics, now, req, service>>
    /\ UNCHANGED routes

NormNext == normalize

NormSpec == NormInit /\ [][NormNext]_vars

(***************************************************************************)
(* Direct calls of the cache backends: RedisCache (main.py) and            *)
(* CacheService (services/cache_service.py), on one Redis server.          *)
(***************************************************************************)
CacheKeys == {"k"}
CacheValues == {JStr("a"), JStr("b")}

\* a text stored under a key by another writer, which json.loads rejects
NotJson == [raw |-> "not json"]

\* the record of a direct call of a cache method: fault says that the server failed
\* during the call; seq alternates, so that every call changes the record
Called(op, key, ret, fault) ==
    [op |-> op, arg |-> key, ret |-> ret, fault |-> fault, seq |-> 1 - last.seq]

CacheInit ==
    /\ backend = "RedisCache"
    /\ store = NoEntries
    /\ redis = NoEntries
    /\ metrics = [requests |-> 0, successes |-> 0, failures |-> 0]
    /\ now = 0
    /\ req = [r \in Reqs |-> Idle]
    /\ service \in {[redis_client |-> c, memory_cache |-> NoEntries] : c \in BOOLEAN}
    /\ last = [op |-> "", arg |-> None, ret |-> None, fault |-> FALSE, seq |-> 0]
    /\ NoRoutes

\* RedisCache.get(key); an exception of self._r.get leaves the method
RedisCache_get(key) ==
    /\ \/ last' = Called("RedisCache.get", key, RedisGet(key), FALSE)
       \/ last' = Called("RedisCache.get", key, Exc, TRUE)
    /\ UNCHANGED <<backend, store, redis, metrics, now, req, service>>
    /\ UNCHANGED routes

\* RedisCache.set(key, value); an exception of self._r.set leaves the method
RedisCache_set(key, value) ==
    /\ \/ /\ redis' = RedisSet(key, value)
          /\ last' = Called("RedisCache.set", key, None, FALSE)
       \/ /\ UNCHANGED redis
          /\ last' = Called("RedisCache.set", key, Exc, TRUE)
    /\ UNCHANGED <<backend, store, metrics, now, req, service>>
    /\ UNCHANGED routes

\* CacheService.get(key) with a redis_client
ServiceGetRedis(key) ==
    LET value == ServerGet(key)
    IN  \/ /\ value # None /\ ~IsExc(JsonLoads(value))
           /\ last' = Called("CacheService.get", key, JsonLoads(value), FALSE)
           /\ UNCHANGED redis
        \/ \* json.JSONDecodeError: the entry is deleted
           /\ value # None /\ IsExc(JsonLoads(value))
           /\ last' = Called("CacheService.get", key, None, FALSE)
           /\ redis' = Drop(redis, key)
        \/ \* json.JSONDecodeError, and redis_client.delete raises
           /\ value # None /\ IsExc(JsonLoads(value))
           /\ last' = Called("CacheService.get", key, None, TRUE)
           /\ UNCHANGED redis
        \/ /\ value = None
           /\ last' = Called("CacheService.get", key, None, FALSE)
           /\ UNCHANGED redis
        \/ \* redis_client.get raises
           /\ last' = Called("CacheService.get", key, None, TRUE)
           /\ UNCHANGED redis

\* CacheService.get(key) without a redis_client: memory_cache
ServiceGetMemory(key) ==
    LET mc == service.memory_cache
    IN  IF key \in DOMAIN mc /\ now < mc[key].expiry
        THEN /\ last' = Called("CacheService.get", key, mc[key].val, FALSE)
             /\ UNCHANGED service
        ELSE /\ last' = Called("CacheService.get", key, None, FALSE)
             /\ service' = [service EXCEPT !.memory_cache = Drop(mc, key)]

CacheService_get(key) ==
    /\ IF service.redis_client
       THEN ServiceGetRedis(key) /\ UNCHANGED service
       ELSE ServiceGetMemory(key) /\ UNCHANGED redis
    /\ UNCHANGED <<backend, store, metrics, now, req>>
    /\ UNCHANGED routes

\* CacheService.set(key, value): True, or False when the server failed
CacheService_set(key, value) ==
    /\ IF service.redis_client
       THEN /\ \/ /\ redis' = Put(redis, key, [exp |-> now + TTL, data |-> JsonDumps(value)])
                  /\ last' = Called("CacheService.set", key, JBool(TRUE), FALSE)
               \/ /\ UNCHANGED redis
                  /\ last' = Called("CacheService.set", key, JBool(FALSE), TRUE)
            /\ UNCHANGED service
       ELSE /\ service' = [service EXCEPT !.memory_cache =
                             Put(@, key, [expiry |-> now + TTL, val |-> value])]
            /\ last' = Called("CacheService.set", key, JBool(TRUE), FALSE)
            /\ UNCHANGED redis
    /\ UNCHANGED <<backend, store, metrics, now, req>>
    /\ UNCHANGED routes

\* CacheService.delete(key): True, or False when the server failed
CacheService_delete(key) ==
    /\ IF service.redis_client
       THEN /\ \/ /\ redis' = Drop(redis, key)
                  /\ last' = Called("CacheService.delete", key, JBool(TRUE), FALSE)
               \/ /\ UNCHANGED redis
                  /\ last' = Called("CacheService.delete", key, JBool(FALSE), TRUE)
            /\ UNCHANGED service
       ELSE /\ service' = [service EXCEPT !.memory_cache = Drop(@, key)]
            /\ last' = Called("CacheService.delete", key, JBool(TRUE), FALSE)
            /\ UNCHANGED redis
    /\ UNCHANGED <<backend, store, metrics, now, req>>
    /\ UNCHANGED routes

\* another client of the Redis server stores a text that is no JSON
foreign_write(key) ==
    /\ redis' = Put(redis, key, [exp |-> now + TTL, data |-> NotJson])
    /\ UNCHANGED <<backend, store, metrics, now, req, service, last>>
    /\ UNCHANGED routes

CacheNext ==
    \/ \E key \in CacheKeys : RedisCache_get(key)
    \/ \E key \in CacheKeys, value \in CacheValues : RedisCache_set(key, value)
    \/ \E key \in CacheKeys : CacheService_get(key)
    \/ \E key \in CacheKeys, value \in CacheValues : CacheService_set(key, value)
    \/ \E key \in CacheKeys : CacheService_delete(key)
    \/ \E key \in CacheKeys : foreign_write(key)
    \/ Tick

CacheSpec == CacheInit /\ [][CacheNext]_vars

(***************************************************************************)
(* The guide routes of routes/guides.py, over GuideService and the         *)
(* CacheService.  A step is what a call does between two awaits that       *)
(* suspend it: the store answers a query in a step of its own, and so does *)
(* the Redis server; the memory cache is read and written without a        *)
(* suspension.  Time does not pass in these runs (the entries are set with *)
(* a TTL of 24 hours).                                                     *)
(***************************************************************************)
\* the ids the calls name; g1 is the guide of the table, g2 is no guide
GuideIds == {"g1", "g2"}
GuideOrder == <<"g1", "g2">>
PlantIds == {"p1"}

\* a row of treatment_guides; it is also the dump of its TreatmentGuideResponse
GuideRow(id, plant, title) ==
    JDict([id |-> JStr(id), plant_id |-> JStr(plant), title |-> JStr(title)])

\* the TreatmentGuideUpdate bodies of call c: no field set, or a new title
Updates(c) == << EmptyDict, JDict([title |-> JStr("v" \o ToString(c))]) >>

\* cache_key of get_guide_by_id, and guide_cache_key of update_guide and delete_guide
GuideKey(guide_id) == "guide:id:" \o guide_id

\* cache_key of get_guides_by_plant, with disease_name, limit and offset at their
\* defaults
PlantKey(plant_id) == "guide:plant:" \o plant_id \o ":disease:all:limit:10:offset:0"

\* the pattern update_guide and delete_guide invalidate
PlantPattern(plant_id) == "guide:plant:" \o plant_id \o ":*"

\* CacheService._match_pattern, and the MATCH of the server's SCAN, for a pattern
\* whose only wildcard is a trailing *
_match_pattern(key, pattern) ==
    LET n == Len(pattern)
    IN  IF n > 0 /\ SubSeq(pattern, n, n) = "*"
        THEN Len(key) >= n - 1 /\ SubSeq(key, 1, n - 1) = SubSeq(pattern, 1, n - 1)
        ELSE key = pattern

\* the calls of the Redis server that may fail: none without a redis_client
Faults == IF service.redis_client THEN BOOLEAN ELSE {FALSE}

\* what CacheService.get(key) returns; fault: the server failed during the call
ServiceGetReturn(key, fault) ==
    IF service.redis_client
    THEN IF fault THEN None
         ELSE LET value == ServerGet(key)
              IN  IF value = None THEN None
                  ELSE IF IsExc(JsonLoads(value)) THEN None ELSE JsonLoads(value)
    ELSE LET mc == service.memory_cache
         IN  IF key \in DOMAIN mc /\ now < mc[key].expiry THEN mc[key].val ELSE None

\* the keyspace and the memory_cache after CacheService.get(key)
RedisAfterGet(key, fault) ==
    IF service.redis_client /\ ~fault /\ ServerGet(key) # None
       /\ IsExc(JsonLoads(ServerGet(key)))
    THEN Drop(redis, key)
    ELSE redis

ServiceAfterGet(key) ==
    LET mc == service.memory_cache
    IN  IF ~service.redis_client /\ key \in DOMAIN mc /\ ~(now < mc[key].expiry)
        THEN [service EXCEPT !.memory_cache = Drop(mc, key)]
        ELSE service

\* the keyspace and the memory_cache after CacheService.set(key, value, 86400)
RedisAfterSet(key, value, fault) ==
    IF service.redis_client /\ ~fault
    THEN Put(redis, key, [exp |-> now + TTL, data |-> JsonDumps(value)])
    ELSE redis

ServiceAfterSet(key, value) ==
    IF service.redis_client THEN service
    ELSE [service EXCEPT !.memory_cache = Put(@, key, [expiry |-> now + TTL, val |-> value])]

\* the keyspace and the memory_cache after CacheService.delete(key)
RedisAfterDelete(key, fault) ==
    IF service.redis_client /\ ~fault THEN Drop(redis, key) ELSE redis

MemoryAfterDelete(mc, key) == Drop(mc, key)

\* the memory_cache after CacheService.invalidate_pattern(pattern)
MemoryAfterInvalidate(mc, pattern) ==
    [k \in {x \in DOMAIN mc : ~_match_pattern(x, pattern)} |-> mc[k]]

\* the keys of the server the SCAN of invalidate_pattern yields
Scanned(pattern) == {k \in DOMAIN redis : _match_pattern(k, pattern)}

\* the keyspace after CacheService.invalidate_pattern(pattern), the server having
\* failed before it deleted the keys kept
RedisAfterInvalidate(pattern, kept) ==
    [k \in (DOMAIN redis) \ (Scanned(pattern) \ kept) |-> redis[k]]

\* the routes
GuideOps == {"get_guide_by_id", "get_guides_by_plant", "update_guide", "delete_guide"}

\* the routes with Depends(verify_auth_token)
Authenticated == {"update_guide", "delete_guide"}

\* the call is answered
GuideAnswer(rec, status, body) ==
    [rec EXCEPT !.pc = "done", !.status = status, !.body = body]

\* the cache key of a get route
KeyOf(rec) ==
    IF rec.op = "get_guide_by_id" THEN GuideKey(rec.guide_id) ELSE PlantKey(rec.plant_id)

\* updated_guide.plant_id / deleted_guide.plant_id: an attribute of the model
\* instance; what GuideService.delete_guide returns is a bool, which has none
PlantIdOf(guide) == IF IsDict(guide) THEN Get(guide, "plant_id") ELSE Exc

\* the state the guide routes leave alone
guideFrame == <<backend, store, metrics, now, req, last, collections, scall>>

GuideInit ==
    /\ backend = "SimpleCache"
    /\ store = NoEntries
    /\ redis = NoEntries
    /\ metrics = [requests |-> 0, successes |-> 0, failures |-> 0]
    /\ now = 0
    /\ req = [r \in Reqs |-> Idle]
    /\ service \in {[redis_client |-> c, memory_cache |-> NoEntries] : c \in BOOLEAN}
    /\ last = NoCall
    /\ guides = [id \in {"g1"} |-> GuideRow("g1", "p1", "v0")]
    /\ gcall = [c \in GuideCalls |-> GuideIdle]
    /\ collections = <<>>
    /\ scall = [c \in SyncCalls |-> SyncIdle]

\* a call arrives; verify_auth_token answers 401 without a bearer token
guide_enter(c) ==
    /\ gcall[c].pc = "idle"
    /\ \A q \in GuideCalls : q < c => gcall[q].pc # "idle"
    /\ \E op \in GuideOps, id \in GuideIds, plant \in PlantIds,
          authorization \in BOOLEAN, u \in 1..2 :
          /\ op = "get_guides_by_plant" => id = "g1"
          /\ op \notin Authenticated => authorization
          /\ op # "update_guide" => u = 1
          /\ LET rec == [GuideIdle EXCEPT
                           !.op = op,
                           !.guide_id = IF op = "get_guides_by_plant" THEN "" ELSE id,
                           !.plant_id = IF op = "get_guides_by_plant" THEN plant ELSE "",
                           !.authorization = authorization,
                           !.guide_update =
                               IF op = "update_guide" THEN Updates(c)[u] ELSE None,
                           !.after = {q \in GuideCalls :
                                         /\ gcall[q].pc = "done"
                                         /\ gcall[q].op = "update_guide"
                                         /\ gcall[q].status = 200}]
             IN  gcall' = [gcall EXCEPT ![c] =
                             IF op \in Authenticated /\ ~authorization
                             THEN GuideAnswer(rec, 401, None)
                             ELSE [rec EXCEPT !.pc =
                                      IF op \in Authenticated THEN "db" ELSE "cache_get"]]
    /\ UNCHANGED <<guides, service, redis, guideFrame>>

\* get_guide_by_id / get_guides_by_plant: cache_service.get(cache_key)
guide_cache_get(c) ==
    /\ gcall[c].pc = "cache_get"
    /\ \E fault \in Faults :
          LET key == KeyOf(gcall[c])
              cached == ServiceGetReturn(key, fault)
          IN  /\ redis' = RedisAfterGet(key, fault)
              /\ service' = ServiceAfterGet(key)
              /\ gcall' = [gcall EXCEPT ![c] =
                              IF Truthy(cached)
                              THEN GuideAnswer([@ EXCEPT !.cached = TRUE], 200, cached)
                              ELSE [@ EXCEPT !.pc = "db"]]
    /\ UNCHANGED <<guides, guideFrame>>

\* the exceptions of a query of the store: SupabaseError is answered 503,
\* GuideServiceError 500
StoreErrors == {503, 500}

\* GuideService.get_guide_by_id: the store answers the select
guide_db_get(c) ==
    /\ gcall[c].pc = "db" /\ gcall[c].op = "get_guide_by_id"
    /\ \/ /\ gcall[c].guide_id \in DOMAIN guides
          /\ gcall' = [gcall EXCEPT ![c] =
                          [@ EXCEPT !.pc = "cache_set", !.guide = guides[gcall[c].guide_id]]]
       \/ /\ gcall[c].guide_id \notin DOMAIN guides
          /\ gcall' = [gcall EXCEPT ![c] = GuideAnswer(@, 404, None)]
       \/ \E status \in StoreErrors :
             gcall' = [gcall EXCEPT ![c] = GuideAnswer(@, status, None)]
    /\ UNCHANGED <<guides, service, redis, guideFrame>>

\* the guides of a plant, in the order of the table
GuidesOfPlant(plant_id) ==
    LET Of(id) == id \in DOMAIN guides /\ Get(guides[id], "plant_id") = JStr(plant_id)
        ids == SelectSeq(GuideOrder, Of)
    IN  [i \in 1..Len(ids) |-> guides[ids[i]]]

\* GuideService.get_guides_by_plant_id: the store answers the select
guide_db_list(c) ==
    /\ gcall[c].pc = "db" /\ gcall[c].op = "get_guides_by_plant"
    /\ \/ LET found == GuidesOfPlant(gcall[c].plant_id)
              response == JDict([plant_id |-> JStr(gcall[c].plant_id),
                                 total_results |-> JNum(Len(found)),
                                 guides |-> JList(found)])
          IN  gcall' = [gcall EXCEPT ![c] = [@ EXCEPT !.pc = "cache_set", !.guide = response]]
       \/ \E status \in StoreErrors :
             gcall' = [gcall EXCEPT ![c] = GuideAnswer(@, status, None)]
    /\ UNCHANGED <<guides, service, redis, guideFrame>>

\* get_guide_by_id / get_guides_by_plant: cache_service.set(cache_key, ...), return
guide_cache_set(c) ==
    /\ gcall[c].pc = "cache_set"
    /\ \E fault \in Faults :
          LET key == KeyOf(gcall[c])
          IN  /\ redis' = RedisAfterSet(key, gcall[c].guide, fault)
              /\ service' = ServiceAfterSet(key, gcall[c].guide)
    /\ gcall' = [gcall EXCEPT ![c] = GuideAnswer(@, 200, gcall[c].guide)]
    /\ UNCHANGED <<guides, guideFrame>>

\* GuideService.update_guide: no field to update returns None without a query;
\* otherwise the store answers the patch with the updated rows
guide_db_patch(c) ==
    /\ gcall[c].pc = "db" /\ gcall[c].op = "update_guide"
    /\ LET id == gcall[c].guide_id
           update_data == gcall[c].guide_update
       IN  IF ~Truthy(update_data)
           THEN /\ gcall' = [gcall EXCEPT ![c] = GuideAnswer(@, 404, None)]
                /\ UNCHANGED guides
           ELSE \/ /\ id \in DOMAIN guides
                   /\ guides' = [guides EXCEPT ![id] = Update(@, update_data)]
                   /\ gcall' = [gcall EXCEPT ![c] =
                                   [@ EXCEPT !.pc = "cache_delete",
                                             !.guide = Update(guides[id], update_data),
                                             !.before = guides[id]]]
                \/ /\ id \notin DOMAIN guides
                   /\ gcall' = [gcall EXCEPT ![c] = GuideAnswer(@, 404, None)]
                   /\ UNCHANGED guides
                \/ /\ \E status \in StoreErrors :
                         gcall' = [gcall EXCEPT ![c] = GuideAnswer(@, status, None)]
                   /\ UNCHANGED guides
    /\ UNCHANGED <<service, redis, guideFrame>>

\* what GuideService.delete_guide returns when rows were deleted: return True
Deleted(row) == JBool(TRUE)

\* GuideService.delete_guide: the store answers the delete with the deleted rows
guide_db_delete(c) ==
    /\ gcall[c].pc = "db" /\ gcall[c].op = "delete_guide"
    /\ LET id == gcall[c].guide_id
       IN  \/ /\ id \in DOMAIN guides
              /\ guides' = Drop(guides, id)
              /\ gcall' = [gcall EXCEPT ![c] =
                              [@ EXCEPT !.pc = "cache_delete",
                                        !.guide = Deleted(guides[id]),
                                        !.deleted = guides[id]]]
           \/ /\ id \notin DOMAIN guides
              /\ gcall' = [gcall EXCEPT ![c] = GuideAnswer(@, 404, None)]
              /\ UNCHANGED guides
           \/ /\ \E status \in StoreErrors :
                    gcall' = [gcall EXCEPT ![c] = GuideAnswer(@, status, None)]
              /\ UNCHANGED guides
    /\ UNCHANGED <<service, redis, guideFrame>>

\* the answer of update_guide (the updated guide) and of delete_guide (204, no body)
Completed(rec) ==
    IF rec.op = "update_guide" THEN GuideAnswer(rec, 200, rec.guide)
    ELSE GuideAnswer(rec, 204, None)

\* update_guide / delete_guide: cache_service.delete(guide_cache_key); reading
\* plant_id of what the service returned raises AttributeError when that is no
\* model instance, which is answered 500; without a redis_client
\* invalidate_pattern and the return follow without a suspension
guide_cache_delete(c) ==
    /\ gcall[c].pc = "cache_delete"
    /\ LET key == GuideKey(gcall[c].guide_id)
           plant_id == PlantIdOf(gcall[c].guide)
       IN  IF service.redis_client
           THEN /\ \E fault \in Faults : redis' = RedisAfterDelete(key, fault)
                /\ gcall' = [gcall EXCEPT ![c] =
                                IF IsExc(plant_id) THEN GuideAnswer(@, 500, None)
                                ELSE [@ EXCEPT !.pc = "invalidate"]]
                /\ UNCHANGED service
           ELSE /\ service' =
                      [service EXCEPT !.memory_cache =
                          IF IsExc(plant_id) THEN MemoryAfterDelete(@, key)
                          ELSE MemoryAfterInvalidate(MemoryAfterDelete(@, key),
                                                     PlantPattern(plant_id.v))]
                /\ gcall' = [gcall EXCEPT ![c] =
                                IF IsExc(plant_id) THEN GuideAnswer(@, 500, None)
                                ELSE Completed(@)]
                /\ UNCHANGED redis
    /\ UNCHANGED <<guides, guideFrame>>

\* update_guide / delete_guide with a redis_client:
\* cache_service.invalidate_pattern(...), return
guide_invalidate(c) ==
    /\ gcall[c].pc = "invalidate"
    /\ LET pattern == PlantPattern(PlantIdOf(gcall[c].guide).v)
       IN  \E kept \in SUBSET Scanned(pattern) : redis' = RedisAfterInvalidate(pattern, kept)
    /\ gcall' = [gcall EXCEPT ![c] = Completed(@)]
    /\ UNCHANGED <<guides, service, guideFrame>>

GuideNext ==
    \E c \in GuideCalls :
        \/ guide_enter(c)
        \/ guide_cache_get(c)
        \/ guide_db_get(c)
        \/ guide_db_list(c)
        \/ guide_cache_set(c)
        \/ guide_db_patch(c)
        \/ guide_db_delete(c)
        \/ guide_cache_delete(c)
        \/ guide_invalidate(c)

GuideSpec == GuideInit /\ [][GuideNext]_vars

(***************************************************************************)
(* POST /api/collections/sync: sync_collections of routes/collections.py   *)
(* over CollectionService.  A step is what a call does between two         *)
(* queries of the store.                                                   *)
(***************************************************************************)
\* the bearer tokens: the UUIDs of two users, a token that is no UUID, and "" for a
\* request without an Authorization header
Users == {"u1", "u2"}
Tokens == Users \cup {"not-a-uuid", ""}

\* the ids the store gives to the rows it inserts, in order
ServerIds == <<"s1", "s2", "s3", "s4">>

\* the common_name of a client item
Names == {"a", "b"}

\* the ids of the rows of the table, in order
RowIds == [i \in 1..Len(collections) |-> JStr(collections[i].id)]

\* the id of a client item: none, an id made up by the client, or the id of a row
\* the store has answered with before
ItemIds == <<None, JStr("c1")>> \o RowIds

\* the lists of client items of a request
ItemLists ==
    LET items == {[id |-> ItemIds[k], common_name |-> n] : k \in 1..Len(ItemIds), n \in Names}
    IN  UNION {[1..n -> items] : n \in 0..MaxItems}

\* the lookup that finds no row
GetCollectionNeverFinds(table, collection_id) == None

\* CollectionService.get_collection_by_id, the store having answered: the row with
\* the id (params id = eq.{collection_id}, nothing else), None when there is none
get_collection_by_id(table, collection_id) ==
    LET found == SelectSeq(table, LAMBDA row : JStr(row.id) = collection_id)
    IN  IF Len(found) > 0 THEN found[1] ELSE None

\* CollectionService.create_collection, the store having answered 201: the payload
\* is the PlantCollectionCreate fields and user_id (the id of the item is no field of
\* it); the store gives the row its id
CreatedRow(table, user_id, create_data) ==
    [id |-> ServerIds[Len(table) + 1], user_id |-> user_id,
     common_name |-> create_data.common_name]

\* the head of the loop `for item in collections`, and the return after it
NextItem(rec) ==
    IF rec.i > Len(rec.items) THEN [rec EXCEPT !.pc = "done", !.status = 200]
    ELSE IF Truthy(rec.items[rec.i].id) THEN [rec EXCEPT !.pc = "get"]
    ELSE [rec EXCEPT !.pc = "create"]

\* except Exception: failed_count += 1; continue
ItemFailed(rec) == NextItem([rec EXCEPT !.failed_count = @ + 1, !.i = @ + 1])

\* synced_collections.append(...); the next item
ItemSynced(rec, row) ==
    NextItem([rec EXCEPT !.synced_collections = Append(@, row), !.i = @ + 1])

\* the state the sync route leaves alone
syncFrame ==
    <<backend, store, redis, metrics, now, req, service, last, guides, gcall>>

SyncInit ==
    /\ backend = "SimpleCache"
    /\ store = NoEntries
    /\ redis = NoEntries
    /\ metrics = [requests |-> 0, successes |-> 0, failures |-> 0]
    /\ now = 0
    /\ req = [r \in Reqs |-> Idle]
    /\ service = [redis_client |-> FALSE, memory_cache |-> NoEntries]
    /\ last = NoCall
    /\ NoRoutes

\* a request arrives: verify_auth_token answers 401 without a token; UUID(user_id)
\* raises ValueError for a token that is no UUID, which is answered 500
sync_enter(c) ==
    /\ scall[c].pc = "idle"
    /\ \A q \in SyncCalls : q < c => scall[q].pc # "idle"
    /\ \E token \in Tokens, items \in ItemLists :
          LET rec == [SyncIdle EXCEPT
                        !.token = token, !.items = items, !.i = 1,
                        !.after = {q \in SyncCalls : scall[q].pc = "done"}]
          IN  scall' = [scall EXCEPT ![c] =
                          IF token = "" THEN [rec EXCEPT !.pc = "done", !.status = 401]
                          ELSE IF token \notin Users
                          THEN [rec EXCEPT !.pc = "done", !.status = 500]
                          ELSE NextItem(rec)]
    /\ UNCHANGED <<collections, syncFrame>>

\* existing = await self.get_collection_by_id(item.id)
sync_get(c) ==
    /\ scall[c].pc = "get"
    /\ LET item == scall[c].items[scall[c].i]
           existing == get_collection_by_id(collections, item.id)
       IN  \/ scall' = [scall EXCEPT ![c] =
                           IF existing # None THEN ItemSynced(@, existing)
                           ELSE [@ EXCEPT !.pc = "create"]]
           \/ \* the store fails: SupabaseError or CollectionServiceError
              scall' = [scall EXCEPT ![c] = ItemFailed(@)]
    /\ UNCHANGED <<collections, syncFrame>>

\* created = await self.create_collection(user_id, create_data)
sync_create(c) ==
    /\ scall[c].pc = "create"
    /\ Len(collections) < Len(ServerIds)
    /\ LET item == scall[c].items[scall[c].i]
           created == CreatedRow(collections, scall[c].token, item)
       IN  \/ /\ collections' = Append(collections, created)
              /\ scall' = [scall EXCEPT ![c] =
                              ItemSynced([@ EXCEPT !.created = Append(@, created.id)],
                                         created)]
           \/ \* the store fails: SupabaseError or CollectionServiceError
              /\ scall' = [scall EXCEPT ![c] = ItemFailed(@)]
              /\ UNCHANGED collections
    /\ UNCHANGED syncFrame

SyncNext ==
    \E c \in SyncCalls :
        \/ sync_enter(c)
        \/ sync_get(c)
        \/ sync_create(c)

SyncSpec == SyncInit /\ [][SyncNext]_vars

(***************************************************************************)
(* Vocabulary of the properties.                                           *)
(***************************************************************************)
Started(r) == req[r].pc # "idle"
Done(r) == req[r].pc = "done"
InFlight(r) == Started(r) /\ ~Done(r)

\* the request passed the validation of identify
Validated(r) == Started(r) /\ req[r].pc # "validate" /\ ValidationError(req[r].inp) = None

\* the content a validated request identifies: the bytes of the file, or the URL
ContentOf(inp) == IF inp.image # None THEN inp.image ELSE Get(inp.body, "image_url")

\* the flags of a request
FlagsOf(inp) == <<inp.check_health, inp.latitude, inp.longitude>>

\* the backend holds an entry for the key that a lookup made now would return
LiveEntry(key) ==
    IF backend = "SimpleCache"
    THEN key \in DOMAIN store /\ now <= store[key].expiry
    ELSE key \in DOMAIN redis /\ now < redis[key].exp /\ "json" \in DOMAIN redis[key].data

\* the request was answered 200 with a result that carries the provider's echo
HasEcho(r) ==
    /\ Done(r) /\ req[r].status = 200
    /\ "input" \in DOMAIN req[r].content.v.raw_response.v

EchoOf(r) == req[r].content.v.raw_response.v.input

\* every attempt the request has made so far failed retryably
AllAttemptsFailedRetryably(r) == req[r].posts > 0 /\ Len(req[r].sleeps) = req[r].posts

\* request r2 performs its cache lookup in this step; it arrived after r1 had been
\* answered 200 for the same content and check_health, and the entry r1 stored or was
\* served from has not expired
RepeatLookup(r1, r2) ==
    /\ req[r2].pc = "get" /\ req'[r2].pc # "get"
    /\ r1 \in req[r2].after
    /\ ContentOf(req[r1].inp) = ContentOf(req[r2].inp)
    /\ req[r1].inp.check_health = req[r2].inp.check_health
    /\ now < req[r1].exp

\* the lookup step has served r2 from the cache with the result r1 was answered
ServedSameResult(r1, r2) ==
    /\ req'[r2].pc = "done"
    /\ req'[r2].hit
    /\ req'[r2].calls = 0
    /\ req'[r2].status = 200
    /\ req'[r2].content = req[r1].content

(***************************************************************************)
(* C1.  As claimed: a request for the same content and check_health flag   *)
(* that arrives after a successful one has finished, and looks the cache   *)
(* up before the entry of that one has expired, is served from the cache:  *)
(* it issues no upstream call and is answered 200 with the same result.    *)
(***************************************************************************)
C1_RepeatIsServedFromCache ==
    [][\A r1, r2 \in Reqs : RepeatLookup(r1, r2) => ServedSameResult(r1, r2)]_vars

(***************************************************************************)
(* C1, where the backend answers.  The same, for a lookup that the cache   *)
(* backend answers (always so on SimpleCache): unless self._r.get raises   *)
(* during the lookup, the repeated request is served from the cache,       *)
(* issues no upstream call and is answered 200 with the same result.       *)
(***************************************************************************)
C1_RepeatIsServedFromCacheIfBackendAnswers ==
    [][\A r1, r2 \in Reqs :
         (RepeatLookup(r1, r2) /\ req'[r2].cause # "cache.get")
         => ServedSameResult(r1, r2)]_vars

\* on RedisCache, a request that arrived after a successful one for the same content
\* and flag has been served that one's result from the cache
C1_Witness ==
    \E r1, r2 \in Reqs :
        /\ backend = "RedisCache"
        /\ Done(r1) /\ Done(r2) /\ r1 \in req[r2].after
        /\ req[r1].calls = 1 /\ req[r1].status = 200
        /\ req[r2].hit /\ req[r2].calls = 0 /\ req[r2].status = 200
        /\ ContentOf(req[r1].inp) = ContentOf(req[r2].inp)
        /\ req[r1].inp.check_health = req[r2].inp.check_health
        /\ req[r2].content = req[r1].content

(***************************************************************************)
(* C2.  As claimed: within the TTL window that starts at time 0, at most   *)
(* one request per cache key has invoked _call_plant_id.                   *)
(***************************************************************************)
C2_AtMostOneCallPerFingerprint ==
    now < TTL =>
        \A r1, r2 \in Reqs :
            (/\ r1 # r2 /\ Validated(r1) /\ Validated(r2)
             /\ CacheKey(req[r1].inp) = CacheKey(req[r2].inp))
            => req[r1].calls + req[r2].calls <= 1

(***************************************************************************)
(* C2, amended.  A request invokes _call_plant_id at most once, and only   *)
(* in the step in which its lookup found no live entry for its key: while  *)
(* an unexpired entry is stored for a key, no lookup of that key leads to  *)
(* an upstream call.                                                       *)
(***************************************************************************)
C2_CallOnlyOnMiss ==
    [][\A r \in Reqs :
         req'[r].calls # req[r].calls
         => /\ req[r].pc = "get" /\ req[r].calls = 0 /\ req'[r].calls = 1
            /\ ~LiveEntry(CacheKey(req[r].inp))]_vars

\* a request was served from the entry another request's upstream call produced
C2_Witness ==
    \E r1, r2 \in Reqs :
        /\ r1 # r2 /\ Done(r1) /\ Done(r2) /\ Validated(r1) /\ Validated(r2)
        /\ CacheKey(req[r1].inp) = CacheKey(req[r2].inp)
        /\ req[r1].calls = 1 /\ req[r1].status = 200
        /\ req[r2].hit /\ req[r2].calls = 0 /\ req[r2].status = 200

(***************************************************************************)
(* C3.  A call all of whose attempts fail retryably (httpx.RequestError or *)
(* a 5xx answer, in any mix) never makes more than 4 POST attempts, makes  *)
(* no attempt after the fourth, and ends only after the fourth, with the   *)
(* 502 of the exhausted retry budget.                                      *)
(***************************************************************************)
C3_FourAttemptsThen502 ==
    \A r \in Reqs :
        AllAttemptsFailedRetryably(r)
        => /\ req[r].posts <= 4
           /\ req[r].answer = RequestError \/ IsServerError(req[r].answer)
           /\ req[r].posts = 4 => req[r].pc \in {"sleep", "done"}
           /\ Done(r) => /\ req[r].posts = 4
                         /\ req[r].status = 502
                         /\ req[r].cause = "exhausted"

\* a call has failed with 502 after four attempts, of which the last was answered 5xx
\* and an earlier one raised RequestError
C3_Witness ==
    \E r \in Reqs :
        /\ Done(r) /\ AllAttemptsFailedRetryably(r)
        /\ req[r].posts = 4 /\ req[r].status = 502
        /\ IsServerError(req[r].answer)

(***************************************************************************)
(* C4.  An attempt answered with a 4xx status ends the call at once: the   *)
(* request is answered 502, no wait follows that attempt (every wait taken *)
(* belongs to an earlier, retryable failure) and no further attempt is     *)
(* made; a 4xx answer to the first attempt leaves exactly one attempt.     *)
(***************************************************************************)
C4_NoRetryOn4xx ==
    \A r \in Reqs :
        (400 <= req[r].answer /\ req[r].answer < 500)
        => /\ Done(r)
           /\ req[r].status = 502
           /\ req[r].cause = "status"
           /\ Len(req[r].sleeps) = req[r].posts - 1

\* a 4xx answer to the first attempt: one attempt, no wait, 502
C4_Witness ==
    \E r \in Reqs :
        /\ Done(r) /\ req[r].answer = 400 /\ req[r].posts = 1
        /\ req[r].sleeps = <<>> /\ req[r].status = 502

(***************************************************************************)
(* C5.  As claimed: a call whose 4 attempts all fail retryably has taken   *)
(* exactly three backoff waits, of 0.5 s, 1 s and 2 s in that order, and   *)
(* raises after the fourth attempt without a further wait.                 *)
(***************************************************************************)
C5_ThreeBackoffWaits ==
    \A r \in Reqs :
        (Done(r) /\ req[r].cause = "exhausted") => req[r].sleeps = <<1, 2, 4>>

(***************************************************************************)
(* C6.  As claimed: an error raised by the cache backend during the get or *)
(* the set of a request never ends the request: whatever the backend does, *)
(* a request that passed validation and whose upstream call did not fail   *)
(* is answered 200 with the normalized result.                             *)
(***************************************************************************)
C6_CacheErrorNeverFailsRequest ==
    \A r \in Reqs :
        (Done(r) /\ Validated(r) /\ req[r].cause \notin {"status", "exhausted", "r.json"})
        => /\ req[r].status = 200
           /\ req[r].cause = "return"

C8_KeySeparatesHealthFlag ==
    /\ \A r1, r2 \in Reqs :
          (/\ Validated(r1) /\ Validated(r2)
           /\ ContentOf(req[r1].inp) = ContentOf(req[r2].inp))
          => ((CacheKey(req[r1].inp) = CacheKey(req[r2].inp))
                <=> (req[r1].inp.check_health = req[r2].inp.check_health))
    /\ \A r \in Reqs :
          HasEcho(r) => (("health" \in DOMAIN EchoOf(r).v) <=> req[r].inp.check_health)

\* an entry is stored for some content under one setting, and a request for the same
\* content under the other setting has missed the cache and been answered its own result
C8_Witness ==
    \E r1, r2 \in Reqs :
        /\ HasEcho(r1) /\ HasEcho(r2)
        /\ r2 \notin req[r1].after /\ r1 \in req[r2].after
        /\ ContentOf(req[r1].inp) = ContentOf(req[r2].inp)
        /\ req[r1].inp.check_health /\ ~req[r2].inp.check_health
        /\ LiveEntry(CacheKey(req[r1].inp))
        /\ ~req[r2].hit /\ req[r2].calls = 1

(***************************************************************************)
(* C9.  As claimed: two requests with the same image bytes whose flags     *)
(* (check_health, latitude, longitude) differ have different cache keys,   *)
(* and a result answered to a request was produced for the flags of that   *)
(* request.                                                                *)
(***************************************************************************)
C9_KeySeparatesAllFlags ==
    /\ \A r1, r2 \in Reqs :
          (/\ Done(r1) /\ req[r1].status = 200 /\ Done(r2) /\ req[r2].status = 200
           /\ ContentOf(req[r1].inp) = ContentOf(req[r2].inp)
           /\ FlagsOf(req[r1].inp) # FlagsOf(req[r2].inp))
          => CacheKey(req[r1].inp) # CacheKey(req[r2].inp)
    /\ \A r \in Reqs :
          HasEcho(r) => EchoOf(r) = InputEcho(FinalPayload(Payload(req[r].inp)))

(***************************************************************************)
(* C10.  Every completed request is answered with exactly one of 200, 400, *)
(* 502 and 500: 502 exactly when _call_plant_id failed (a non-retryable    *)
(* status, or the retry budget exhausted), 400 exactly when validation     *)
(* raised its HTTPException, 200 exactly when the handler returned, and    *)
(* 500 exactly when another exception left the try block.                  *)
(***************************************************************************)
C10_StatusByFailureClass ==
    \A r \in Reqs :
        /\ ~Done(r) => req[r].status = 0
        /\ Done(r) =>
             /\ req[r].status \in {200, 400, 502, 500}
             /\ (req[r].status = 502) <=> (req[r].cause \in {"status", "exhausted"})
             /\ (req[r].status = 400) <=> (req[r].cause \in {"empty file", "no image_url"})
             /\ (req[r].status = 200) <=> (req[r].cause = "return")
             /\ (req[r].status = 500) <=>
                   (req[r].cause \in {"request.json", "body.get", "image_url.encode",
                                      "cache.get", "cache.set", "r.json"})

\* the two kinds of upstream failure, each answered 502
C10_Witness ==
    \E r1, r2 \in Reqs :
        /\ Done(r1) /\ req[r1].cause = "exhausted" /\ req[r1].status = 502
        /\ Done(r2) /\ req[r2].cause = "status" /\ req[r2].status = 502

(***************************************************************************)
(* Vocabulary of the properties of the cache backends.                     *)
(***************************************************************************)
\* the Redis server holds, for the key, an unexpired text that cannot be parsed
Unparseable(key) ==
    /\ key \in DOMAIN redis /\ now < redis[key].exp
    /\ IsExc(JsonLoads(redis[key].data))

\* this step is a get(key) of a durable backend during which the server did not fail
DurableGet(key) ==
    /\ last'.seq # last.seq
    /\ last'.arg = key
    /\ ~last'.fault
    /\ \/ last'.op = "RedisCache.get"
       \/ last'.op = "CacheService.get" /\ service.redis_client

\* this step is a CacheService.get(key) served by memory_cache
MemoryGet(key) ==
    /\ last'.seq # last.seq
    /\ last'.arg = key
    /\ last'.op = "CacheService.get" /\ ~service.redis_client

(***************************************************************************)
(* C14.  As claimed: when the Redis server holds for a key a value that    *)
(* cannot be parsed, get(key) of a durable backend (RedisCache or          *)
(* CacheService with a redis_client) returns absent and the entry is       *)
(* removed from the server.                                                *)
(***************************************************************************)
C14_CorruptEntryRemoved ==
    [][\A key \in CacheKeys :
         (DurableGet(key) /\ Unparseable(key))
         => (last'.ret = None /\ key \notin DOMAIN redis')]_vars

(***************************************************************************)
(* C14, for CacheService alone.  The same holds of CacheService.get.       *)
(***************************************************************************)
C14_CacheServiceRemovesCorruptEntry ==
    [][\A key \in CacheKeys :
         (DurableGet(key) /\ last'.op = "CacheService.get" /\ Unparseable(key))
         => (last'.ret = None /\ key \notin DOMAIN redis')]_vars

(***************************************************************************)
(* C13, for the memory_cache of CacheService.  A get before the expiry of  *)
(* the entry returns its value and leaves it; a get at or after the expiry *)
(* returns absent and removes the entry.                                   *)
(***************************************************************************)
C13_MemoryCacheExpiry ==
    [][\A key \in CacheKeys :
         (MemoryGet(key) /\ key \in DOMAIN service.memory_cache)
         => IF now < service.memory_cache[key].expiry
            THEN /\ last'.ret = service.memory_cache[key].val
                 /\ service' = service
            ELSE /\ last'.ret = None
                 /\ key \notin DOMAIN service'.memory_cache]_vars

(***************************************************************************)
(* Vocabulary of the properties of the normalizer.                         *)
(***************************************************************************)
\* _normalize_plant_id_response has been called with Resp and has returned Out
Normalized == last.op = "_normalize_plant_id_response"
Resp == last.arg
Out == last.ret

\* the result object of the answer, None when the answer has none
ResultOf(resp) ==
    IF IsDict(resp) /\ IsDict(Get(resp, "result")) THEN Get(resp, "result") ELSE None

\* the result object of the answer contains the key is_healthy
HasIsHealthy(resp) ==
    ResultOf(resp) # None /\ "is_healthy" \in DOMAIN ResultOf(resp).v

\* the health_assessment of the returned result, None when it is null or missing
Assessment == IF IsDict(Out) THEN Get(Out, "health_assessment") ELSE None

\* the upstream is_healthy.probability, None when absent
UpstreamProbability ==
    IF HasIsHealthy(Resp) /\ IsDict(Get(ResultOf(Resp), "is_healthy"))
    THEN Get(Get(ResultOf(Resp), "is_healthy"), "probability")
    ELSE None

\* the elements of result.disease.suggestions, <<>> when that is no list
DiseaseSuggestions ==
    IF ResultOf(Resp) # None /\ IsDict(Get(ResultOf(Resp), "disease"))
       /\ IsList(Get(Get(ResultOf(Resp), "disease"), "suggestions"))
    THEN Get(Get(ResultOf(Resp), "disease"), "suggestions").v
    ELSE <<>>

\* the fields of the NormalizedResult schema that are derived from the answer
DerivedFields ==
    {"id", "common_name", "scientific_name", "confidence", "care", "description",
     "health_assessment"}

\* the answer has a top suggestion that is an object whose details, when given, are
\* an object, and every object among the disease suggestions has similar_images
\* absent or iterable
WellFormed ==
    /\ ResultOf(Resp) # None
    /\ IsDict(Get(ResultOf(Resp), "classification"))
    /\ LET s == Get(Get(ResultOf(Resp), "classification"), "suggestions")
       IN  /\ IsList(s) /\ Len(s.v) > 0 /\ IsDict(s.v[1]) /\ Truthy(s.v[1])
           /\ ~Truthy(Get(s.v[1], "details")) \/ IsDict(Get(s.v[1], "details"))
    /\ \A i \in 1..Len(DiseaseSuggestions) :
          (IsDict(DiseaseSuggestions[i])
           /\ "similar_images" \in DOMAIN DiseaseSuggestions[i].v)
          => Get(DiseaseSuggestions[i], "similar_images").t \in {"list", "str", "dict"}

(***************************************************************************)
(* C16.  For every answer, of any JSON shape, _normalize_plant_id_response *)
(* returns a result (it does not raise), and the raw_response of that      *)
(* result is the answer it was given.                                      *)
(***************************************************************************)
C16_NeverRaisesAndKeepsRawResponse ==
    Normalized =>
        /\ ~IsExc(Out)
        /\ IsDict(Out)
        /\ "raw_response" \in DOMAIN Out.v
        /\ Out.v.raw_response = Resp
        /\ Out.v.provider = JStr("plant.id")

\* the normalizer has returned for an answer inside whose normalization an exception
\* was raised (details that are no object)
C16_Witness ==
    /\ Normalized
    /\ WellFormed = FALSE
    /\ ResultOf(Resp) # None
    /\ IsDict(Get(ResultOf(Resp), "classification"))
    /\ LET s == Get(Get(ResultOf(Resp), "classification"), "suggestions").v
       IN  Len(s) > 0 /\ IsDict(s[1]) /\ IsStr(Get(s[1], "details"))
    /\ Out.v.raw_response = Resp

(***************************************************************************)
(* C17.  As claimed: for every answer, the normalized result contains      *)
(* every derived field of the NormalizedResult schema (id, common_name,    *)
(* scientific_name, confidence, care, description, health_assessment).     *)
(***************************************************************************)
C17_AllFieldsPresent ==
    Normalized => (IsDict(Out) /\ DerivedFields \subseteq DOMAIN Out.v)

C19_HealthyThreshold ==
    (Normalized /\ Assessment # None) =>
        LET p == UpstreamProbability
            value == IF p.t = "bool" THEN (IF p.v THEN 100 ELSE 0) ELSE p.v
        IN  IF p.t \in {"num", "bool"}
            THEN /\ Assessment.v.probability = JNum(value)
                 /\ Assessment.v.is_healthy = JBool(value >= 50)
            ELSE /\ Assessment.v.probability = JNum(100)
                 /\ Assessment.v.is_healthy = JBool(TRUE)

\* an assessment at the threshold: probability 0.5 reported healthy
C19_Witness ==
    /\ Normalized /\ Assessment # None
    /\ UpstreamProbability = JNum(50)
    /\ Assessment.v.is_healthy = JBool(TRUE)
    /\ Assessment.v.probability = JNum(50)

(***************************************************************************)
(* C20.  The diseases of a health assessment are the object elements of    *)
(* result.disease.suggestions, one entry each, in the same order, with the *)
(* element's name and probability; an element that is no object is skipped *)
(* and does not keep the assessment from being produced.                   *)
(***************************************************************************)
C20_DiseasesOneToOne ==
    Normalized =>
        LET objs == SelectSeq(DiseaseSuggestions, IsDict)
        IN  /\ (HasIsHealthy(Resp) /\ WellFormed) => Assessment # None
            /\ Assessment # None =>
                 /\ IsList(Assessment.v.diseases)
                 /\ Len(Assessment.v.diseases.v) = Len(objs)
                 /\ \A i \in 1..Len(objs) :
                       /\ Assessment.v.diseases.v[i].v.name = Get(objs[i], "name")
                       /\ Assessment.v.diseases.v[i].v.probability
                             = Get(objs[i], "probability")

\* three disease suggestions, the second of them no object, have given two entries
C20_Witness ==
    /\ Normalized /\ Assessment # None
    /\ Len(DiseaseSuggestions) = 3 /\ ~IsDict(DiseaseSuggestions[2])
    /\ Len(Assessment.v.diseases.v) = 2
    /\ Assessment.v.diseases.v[1].v.name = JStr("Black Spot")
    /\ Assessment.v.diseases.v[2].v.name = JStr("Rust")

\* the elements of result.classification.suggestions, <<>> when that is no list
ClassificationSuggestions ==
    IF ResultOf(Resp) # None /\ IsDict(Get(ResultOf(Resp), "classification"))
       /\ IsList(Get(Get(ResultOf(Resp), "classification"), "suggestions"))
    THEN Get(Get(ResultOf(Resp), "classification"), "suggestions").v
    ELSE <<>>

\* the elements of the top-level suggestions of the answer, <<>> when that is no list
TopLevelSuggestions ==
    IF IsDict(Resp) /\ IsList(Get(Resp, "suggestions"))
    THEN Get(Resp, "suggestions").v
    ELSE <<>>

\* the scientific_name the result takes from the suggestion top
ScientificNameOf(top) ==
    IF ~IsDict(top) THEN None
    ELSE LET sci == Or(Get(top, "scientific_name"),
                       Or(Get(top, "name"), Get(top, "species")))
         IN  IF sci # None THEN PyStr(sci) ELSE None

\* the suggestion is an object the fields can be derived from without an exception:
\* its details, when given, are an object, and, when the answer has the key is_healthy,
\* every object among the disease suggestions has similar_images absent or iterable
Derivable(top) ==
    /\ IsDict(top) /\ Truthy(top)
    /\ ~Truthy(Get(top, "details")) \/ IsDict(Get(top, "details"))
    /\ HasIsHealthy(Resp) =>
          \A i \in 1..Len(DiseaseSuggestions) :
             (IsDict(DiseaseSuggestions[i])
              /\ "similar_images" \in DOMAIN DiseaseSuggestions[i].v)
             => Get(DiseaseSuggestions[i], "similar_images").t \in {"list", "str", "dict"}

C25_AllOrNothing ==
    Normalized =>
        /\ IsDict(Out)
        /\ \/ DerivedFields \subseteq DOMAIN Out.v
           \/ DOMAIN Out.v = {"provider", "raw_response"}
        /\ (ClassificationSuggestions # <<>>
            /\ ~Derivable(ClassificationSuggestions[1])) =>
              DOMAIN Out.v = {"provider", "raw_response"}

\* the top suggestion has a name and details that are no object: the extraction of
\* the care information raises after the name has been derived, and the result
\* holds no derived field
C25_Witness ==
    /\ Normalized
    /\ ClassificationSuggestions # <<>>
    /\ IsDict(ClassificationSuggestions[1])
    /\ ScientificNameOf(ClassificationSuggestions[1]) = JStr("Ficus lyrata")
    /\ IsStr(Get(ClassificationSuggestions[1], "details"))
    /\ DOMAIN Out.v = {"provider", "raw_response"}

(***************************************************************************)
(* Vocabulary of the properties of validation and of the cache entries.   *)
(***************************************************************************)
\* the request supplies no file and no image_url (no usable JSON body, or one without
\* image_url), or supplies an empty file
SuppliesNothing(inp) ==
    IF inp.image # None THEN inp.image.v = ""
    ELSE IsExc(inp.body) \/ ~IsDict(inp.body) \/ ~Truthy(Get(inp.body, "image_url"))

\* the entries of the cache backend in use, as (expiry, value) records
Entries ==
    IF backend = "SimpleCache" THEN store
    ELSE [k \in DOMAIN redis |-> [expiry |-> redis[k].exp, val |-> JsonLoads(redis[k].data)]]

\* in this step request r completes _process_and_cache after a miss: it stores its
\* normalized result under key with a fresh expiry and is answered 200
WritesEntry(r, key) ==
    /\ req[r].pc \in {"post", "set"} /\ req'[r].pc = "done"
    /\ req[r].calls = 1 /\ ~req'[r].hit /\ req'[r].status = 200
    /\ CacheKey(req[r].inp) = key
    /\ key \in DOMAIN Entries'
    /\ Entries'[key] = [expiry |-> now + TTL, val |-> req'[r].content]

\* in this step request r performs its lookup on SimpleCache
SimpleLookup(r) ==
    backend = "SimpleCache" /\ req[r].pc = "get" /\ req'[r].pc # "get"

(***************************************************************************)
(* C11.  As claimed: a request that supplies neither a file nor an         *)
(* image_url (no usable JSON body, or a body without image_url), or an     *)
(* empty file, is answered 400, and has made no upstream call and never    *)
(* reached the cache.                                                      *)
(***************************************************************************)
C11_NothingSuppliedIs400 ==
    \A r \in Reqs :
        (Started(r) /\ SuppliesNothing(req[r].inp))
        => /\ req[r].pc \in {"validate", "done"}
           /\ req[r].calls = 0 /\ req[r].posts = 0
           /\ Done(r) => req[r].status = 400

(***************************************************************************)
(* C12.  As claimed: an entry that is stored and has not expired is left   *)
(* as it is, value and expiry, by every step.                              *)
(***************************************************************************)
C12_EntryReadOnlyUntilExpiry ==
    [][\A key \in DOMAIN Entries :
         LiveEntry(key) => (key \in DOMAIN Entries' /\ Entries'[key] = Entries[key])]_vars

(***************************************************************************)
(* C12, amended.  An entry that is stored and has not expired is never     *)
(* removed and never changed in part; the only step that changes it is the *)
(* completion of a request whose own lookup had missed (it looked the key  *)
(* up before the entry was stored), which replaces value and expiry        *)
(* together by its own result; a request served from the cache writes      *)
(* nothing.                                                                *)
(***************************************************************************)
C12_EntryReplacedOnlyByConcurrentMiss ==
    [][\A key \in DOMAIN Entries :
         (LiveEntry(key) /\ (key \notin DOMAIN Entries' \/ Entries'[key] # Entries[key]))
         => \E r \in Reqs : WritesEntry(r, key)]_vars

\* two requests for one key both missed; the one that completed later has replaced the
\* entry of the other, with a later expiry
C12_Witness ==
    \E r1, r2 \in Reqs :
        /\ r1 # r2 /\ Done(r1) /\ Done(r2)
        /\ req[r1].status = 200 /\ req[r2].status = 200
        /\ req[r1].calls = 1 /\ req[r2].calls = 1
        /\ CacheKey(req[r1].inp) = CacheKey(req[r2].inp)
        /\ req[r1].exp < req[r2].exp
        /\ CacheKey(req[r2].inp) \in DOMAIN Entries
        /\ Entries[CacheKey(req[r2].inp)].expiry = req[r2].exp
        /\ Entries[CacheKey(req[r2].inp)].val = req[r2].content

(***************************************************************************)
(* C13.  On SimpleCache, a lookup made after the expiry of the entry of    *)
(* its key does not return the entry and removes it from the store, and    *)
(* the request doing it calls the upstream; a lookup made before the       *)
(* expiry returns the stored value and leaves the store as it is.          *)
(***************************************************************************)
C13_ExpiredEntryPurgedAndRefetched ==
    [][\A r \in Reqs :
         (SimpleLookup(r) /\ CacheKey(req[r].inp) \in DOMAIN store)
         => LET key == CacheKey(req[r].inp)
            IN  /\ now > store[key].expiry
                     => /\ key \notin DOMAIN store'
                        /\ ~req'[r].hit
                        /\ req'[r].pc = "post" /\ req'[r].calls = 1
                /\ now < store[key].expiry
                     => /\ req'[r].hit /\ req'[r].calls = 0
                        /\ req'[r].content = store[key].val
                        /\ store' = store]_vars

\* a request that arrived after another one had stored the entry of its key has missed
\* the cache, the entry having expired, and has called the upstream
C13_Witness ==
    \E r1, r2 \in Reqs :
        /\ backend = "SimpleCache"
        /\ r1 \in req[r2].after /\ req[r1].calls = 1
        /\ Validated(r2)
        /\ CacheKey(req[r1].inp) = CacheKey(req[r2].inp)
        /\ ~req[r2].hit /\ req[r2].calls = 1
        /\ now > req[r1].exp

(***************************************************************************)
(* C15.  While a request waits in a retry backoff, every other request is  *)
(* free to take its next step, and a new request is free to arrive, with   *)
(* the waiting request staying in its wait.                                *)
(***************************************************************************)
C15_BackoffBlocksNoOtherRequest ==
    \A r1, r2 \in Reqs :
        (r1 # r2 /\ req[r1].pc = "sleep")
        => /\ req[r2].pc \in {"validate", "get", "post", "set"}
                => ENABLED (Next /\ req'[r2] # req[r2] /\ req'[r1] = req[r1])
           /\ (req[r2].pc = "idle" /\ \A q \in Reqs : q < r2 => Started(q))
                => ENABLED (Next /\ req'[r2].pc = "validate" /\ req'[r1] = req[r1])

\* a request that arrived while another one was in its first backoff wait has been
\* answered 200, and that one is still in the same wait
C15_Witness ==
    \E r1, r2 \in Reqs :
        /\ r1 # r2
        /\ req[r1].pc = "sleep" /\ Len(req[r1].sleeps) = 1
        /\ r1 \in req[r2].during
        /\ Done(r2) /\ req[r2].status = 200

(***************************************************************************)
(* Vocabulary of the properties of the outcome of the upstream call.       *)
(***************************************************************************)
\* the last attempt of the request got a success status and its body was parsed
ParsedSuccess(rec) == IsSuccess(rec.answer) /\ rec.cause # "r.json"

\* _call_plant_id raised: a 4xx answer, the retry budget exhausted, a body that is no
\* JSON
UpstreamFailed(rec) == rec.pc = "done" /\ rec.cause \in {"status", "exhausted", "r.json"}

\* in this step the request is answered
Answered(r) == req[r].pc # "done" /\ req'[r].pc = "done"

\* the normalization fell back to the defaults: the result holds no derived field
Degraded(normalized) ==
    IsDict(normalized) /\ DOMAIN normalized.v = {"provider", "raw_response"}

\* request r2 performs its lookup in this step, after the upstream call of r1 for the
\* same key has failed, and no entry for the key is in the cache
LookupAfterFailure(r1, r2) ==
    /\ req[r2].pc = "get" /\ req'[r2].pc # "get"
    /\ UpstreamFailed(req[r1])
    /\ CacheKey(req[r1].inp) = CacheKey(req[r2].inp)
    /\ ~LiveEntry(CacheKey(req[r2].inp))

(***************************************************************************)
(* C26.  As claimed: a request whose attempts 1..k-1 failed retryably and  *)
(* whose attempt k (k <= 4) got a success status with a parsed body makes  *)
(* no further attempt, and is answered 200 after exactly k attempts, with  *)
(* its normalized result stored in the cache under its key, successes      *)
(* incremented by one and failures unchanged.                              *)
(***************************************************************************)
C26_SuccessAtAttemptK ==
    [][\A r \in Reqs :
          /\ IsSuccess(req[r].answer) => req'[r].posts = req[r].posts
          /\ (Answered(r) /\ ParsedSuccess(req'[r])) =>
                /\ req'[r].posts = Len(req'[r].sleeps) + 1
                /\ req'[r].posts <= 4
                /\ req'[r].status = 200
                /\ WritesEntry(r, CacheKey(req[r].inp))
                /\ metrics'.successes = metrics.successes + 1
                /\ metrics'.failures = metrics.failures]_vars

\* the same whenever the cache backend accepts the set
C26_SuccessAtAttemptKIfBackendStores ==
    [][\A r \in Reqs :
          /\ IsSuccess(req[r].answer) => req'[r].posts = req[r].posts
          /\ (Answered(r) /\ ParsedSuccess(req'[r]) /\ req'[r].cause # "cache.set") =>
                /\ req'[r].posts = Len(req'[r].sleeps) + 1
                /\ req'[r].posts <= 4
                /\ req'[r].status = 200
                /\ WritesEntry(r, CacheKey(req[r].inp))
                /\ metrics'.successes = metrics.successes + 1
                /\ metrics'.failures = metrics.failures]_vars

\* on RedisCache a request has been answered 200 by its third attempt, after two
\* retryable failures, and its result is in the cache
C26_Witness ==
    \E r \in Reqs :
        /\ backend = "RedisCache"
        /\ Done(r) /\ req[r].status = 200 /\ ~req[r].hit
        /\ req[r].posts = 3 /\ req[r].sleeps = <<1, 2>>
        /\ LiveEntry(CacheKey(req[r].inp))
        /\ Entries[CacheKey(req[r].inp)].val = req[r].content

(***************************************************************************)
(* C27.  As claimed: the step in which the upstream call of a request      *)
(* fails leaves the cache unchanged, increments failures by one and leaves *)
(* successes unchanged; and a request for the same key that looks the      *)
(* cache up after the failure, no entry for the key being there, calls the *)
(* upstream.                                                               *)
(***************************************************************************)
C27_UpstreamFailureLeavesCache ==
    [][/\ \A r \in Reqs :
             (Answered(r) /\ UpstreamFailed(req'[r])) =>
                /\ store' = store /\ redis' = redis
                /\ metrics'.failures = metrics.failures + 1
                /\ metrics'.successes = metrics.successes
       /\ \A r1, r2 \in Reqs :
             LookupAfterFailure(r1, r2) =>
                req'[r2].pc = "post" /\ req'[r2].calls = 1]_vars

\* the same whenever the cache backend answers the lookup of the later request
C27_UpstreamFailureLeavesCacheIfBackendAnswers ==
    [][/\ \A r \in Reqs :
             (Answered(r) /\ UpstreamFailed(req'[r])) =>
                /\ store' = store /\ redis' = redis
                /\ metrics'.failures = metrics.failures + 1
                /\ metrics'.successes = metrics.successes
       /\ \A r1, r2 \in Reqs :
             (LookupAfterFailure(r1, r2) /\ req'[r2].cause # "cache.get") =>
                req'[r2].pc = "post" /\ req'[r2].calls = 1]_vars

\* a request has been answered 502, nothing is in the cache, and a request for the
\* same key that looked the cache up afterwards has called the upstream
C27_Witness ==
    \E r1, r2 \in Reqs :
        /\ r1 # r2
        /\ UpstreamFailed(req[r1]) /\ req[r1].status = 502
        /\ req[r2].pc = "post" /\ req[r2].calls = 1
        /\ CacheKey(req[r1].inp) = CacheKey(req[r2].inp)
        /\ metrics.failures = 1 /\ metrics.successes = 0
        /\ DOMAIN Entries = {}

(***************************************************************************)
(* C28.  As claimed: no cache entry holds a degraded result (the result of *)
(* a normalization that fell back to the defaults).                        *)
(***************************************************************************)
C28_NoDegradedEntry ==
    \A key \in DOMAIN Entries : ~Degraded(Entries[key].val)

\* a request whose upstream call returned has been answered 200 with a degraded result
C28_Witness ==
    \E r \in Reqs :
        /\ Done(r) /\ req[r].status = 200 /\ ~req[r].hit /\ req[r].calls = 1
        /\ Degraded(req[r].content)

(***************************************************************************)
(* Vocabulary of the properties of the guide routes.                       *)
(***************************************************************************)
\* in this step the call of a guide route is answered
GuideAnswered(c) == gcall[c].pc # "done" /\ gcall'[c].pc = "done"

\* the keys a lookup in the cache of the CacheService would find
CachedKeys ==
    IF service.redis_client
    THEN {k \in DOMAIN redis : now < redis[k].exp}
    ELSE {k \in DOMAIN service.memory_cache : now < service.memory_cache[k].expiry}

\* the call is a get_guide_by_id that arrived after the update_guide call p for the
\* same guide had been answered 200, and has been answered from the cache
LaterGetFromCache(g, p) ==
    /\ gcall[g].pc = "done" /\ gcall[g].op = "get_guide_by_id"
    /\ p \in gcall[g].after
    /\ gcall[p].guide_id = gcall[g].guide_id
    /\ gcall[g].status = 200 /\ gcall[g].cached

(***************************************************************************)
(* C22.  As claimed: a delete_guide call for which the store deleted the   *)
(* guide is answered 204, and when it is answered the guide is not in the  *)
(* table and the cache holds neither guide:id:{guide_id} nor any key       *)
(* guide:plant:{plant_id}:* of the plant of the deleted guide; a call      *)
(* answered 404 is one for which the store found no guide.                 *)
(***************************************************************************)
C22_DeleteRemovesGuideAndEntries ==
    [][\A c \in GuideCalls :
          (GuideAnswered(c) /\ gcall'[c].op = "delete_guide") =>
             /\ gcall'[c].deleted # None =>
                   /\ gcall'[c].status = 204
                   /\ gcall'[c].guide_id \notin DOMAIN guides'
                   /\ GuideKey(gcall'[c].guide_id) \notin CachedKeys'
                   /\ \A k \in CachedKeys' :
                         ~_match_pattern(k, PlantPattern(gcall'[c].deleted.v.plant_id.v))
             /\ gcall'[c].status = 404 => gcall'[c].deleted = None]_vars

\* a delete_guide call for the guide of the table has been answered: the guide is
\* gone from the table and guide:id:g1 from the cache, the answer is 500 and the
\* entry of the plant is still in the cache
C22_Witness ==
    \E c \in GuideCalls :
        /\ gcall[c].pc = "done" /\ gcall[c].op = "delete_guide"
        /\ gcall[c].deleted # None
        /\ "g1" \notin DOMAIN guides
        /\ GuideKey("g1") \notin CachedKeys
        /\ PlantKey("p1") \in CachedKeys
        /\ gcall[c].status = 500

(***************************************************************************)
(* C29.  As claimed: a get_guide_by_id call that arrives after an          *)
(* update_guide call for the same guide has been answered 200 is never     *)
(* answered from the cache with the guide as it was before that update.    *)
(***************************************************************************)
C29_NoStaleGuideAfterUpdate ==
    \A g, p \in GuideCalls :
        LaterGetFromCache(g, p) => gcall[g].body # gcall[p].before

\* a get_guide_by_id call that arrived after the update has been answered from the
\* cache with the updated guide
C29_Witness ==
    \E g, p \in GuideCalls :
        /\ LaterGetFromCache(g, p)
        /\ gcall[g].body = gcall[p].guide
        /\ gcall[g].body # gcall[p].before

(***************************************************************************)
(* Vocabulary of the properties of the sync route.                         *)
(***************************************************************************)
\* the rows of the table whose id is the id of the item
Matching(item) ==
    {k \in 1..Len(collections) : JStr(collections[k].id) = item.id}

\* the item the call is at
CurrentItem(c) == scall[c].items[scall[c].i]

\* the call c2 arrived after c1 had been answered, with the same token and the same
\* list of items, each carrying an id, and no item of either failed
SameSyncTwice(c1, c2) ==
    /\ scall[c2].pc = "done" /\ scall[c2].status = 200
    /\ c1 \in scall[c2].after /\ scall[c1].status = 200
    /\ scall[c1].token = scall[c2].token
    /\ scall[c1].items = scall[c2].items
    /\ \A k \in 1..Len(scall[c2].items) : scall[c2].items[k].id # None
    /\ scall[c1].failed_count = 0 /\ scall[c2].failed_count = 0

C24_OnlyOwnCollections ==
    \A c \in SyncCalls :
        /\ \A k \in 1..Len(scall[c].synced_collections) :
              scall[c].synced_collections[k].user_id = scall[c].token
        /\ \A k \in 1..Len(collections) :
              collections[k].id \in {scall[c].created[j] : j \in 1..Len(scall[c].created)}
              => collections[k].user_id = scall[c].token

\* a call has been answered with a row it created, owned by its user
C24_Witness ==
    \E c \in SyncCalls :
        /\ scall[c].pc = "done" /\ scall[c].status = 200
        /\ Len(scall[c].created) = 1
        /\ Len(scall[c].synced_collections) = 1
        /\ scall[c].synced_collections[1].id = scall[c].created[1]
        /\ scall[c].synced_collections[1].user_id = scall[c].token

(***************************************************************************)
(* C30.  As claimed: a sync call that follows an answered call of the same *)
(* user with the same list of items, each carrying its id, inserts no row. *)
(***************************************************************************)
C30_SecondSyncInsertsNothing ==
    \A c1, c2 \in SyncCalls :
        SameSyncTwice(c1, c2) => scall[c2].created = <<>>

\* the same list of one item has been synced twice, and each call has been answered
\* with one row for the item
C30_Witness ==
    \E c1, c2 \in SyncCalls :
        /\ SameSyncTwice(c1, c2)
        /\ Len(scall[c2].items) = 1
        /\ Len(scall[c1].synced_collections) = 1
        /\ Len(scall[c2].synced_collections) = 1

====
